---------------------------- MODULE Spec2Model ----------------------------
(***************************************************************************)
(* Token validation and rate limiting of the TRMNL screenshot addon        *)
(* (auth.js, server.js).                                                   *)
(*                                                                         *)
(* JavaScript values are records [k, s, n]: k is the type tag, s the text  *)
(* of a string, n the value of a number.  A string whose text is           *)
(* "iso8601" stands for the ISO-8601 rendering of the instant n (ms).      *)
(* A token string is kept as the list of its "_"-separated segments.       *)
(* HMAC-SHA256 is a symbolic, collision-free function of (key, message).   *)
(***************************************************************************)
EXTENDS Integers, Sequences, FiniteSets, TLC

VARIABLES now, call, tokenSecret, attempts, http, requests, limiter, window,
          inflight, activeCaptures, captureQueue, captures, unswept,
          browser, initCalls, closer, launches, launched, page,
          disk, inodes, saves, reads,
          socket, reconnectAttempts, timer, sinceOpen, opens

vars == <<now, call, tokenSecret, attempts, http, requests, limiter, window,
          inflight, activeCaptures, captureQueue, captures, unswept,
          browser, initCalls, closer, launches, launched, page,
          disk, inodes, saves, reads,
          socket, reconnectAttempts, timer, sinceOpen, opens>>

\* the state of the capture queue (screenshot.js)
captureVars == <<activeCaptures, captureQueue, captures>>

\* the Puppeteer browser of screenshot.js and the calls that launch and
\* close it
browserVars == <<browser, initCalls, closer, launches, launched>>

\* the state of the service's other modules
\* the screenshot files and the saveScreenshot and getScreenshot calls in
\* progress (storage.js)
storageVars == <<disk, inodes, saves, reads>>

\* the WebSocket to Home Assistant and its reconnection (websocket.js)
socketVars == <<socket, reconnectAttempts, timer, sinceOpen, opens>>

serviceVars == <<browserVars, page, storageVars, socketVars>>

---------------------------------------------------------------------------
(* Bounds of the model *)

MaxTick == 3
TickMs == 500
MaxForm == 1
MaxRequests == 12
MaxInFlight == 3
MaxCaptureCalls == 5
MaxInitCalls == 2
MaxLaunches == 3
MaxPageCaptures == 2
MaxSaves == 2
MaxReads == 2
MaxChunks == 2
MaxOpens == 4

Instants == {i * TickMs : i \in 0..MaxTick}

---------------------------------------------------------------------------
(* JavaScript values *)

Undefined == [k |-> "undefined", s |-> "", n |-> 0]
Null == [k |-> "null", s |-> "", n |-> 0]
Str(x) == [k |-> "string", s |-> x, n |-> 0]
Num(x) == [k |-> "number", s |-> "", n |-> x]
Iso(t) == [k |-> "string", s |-> "iso8601", n |-> t]

\* !v
FalsyNullish(v) == v.k \in {"undefined", "null"}
Falsy(v) ==
  \/ v.k \in {"undefined", "null"}
  \/ v.k = "string" /\ v.s = ""
  \/ v.k = "number" /\ v.n = 0

\* new Date(v): the time value, NaN for an Invalid Date
NaN == [nan |-> TRUE, ms |-> 0]
Ms(t) == [nan |-> FALSE, ms |-> t]

NewDate(v) ==
  CASE v.k = "undefined" -> NaN
    [] v.k = "null" -> Ms(0)
    [] v.k = "number" -> Ms(v.n)
    [] v.k = "string" -> IF v.s = "iso8601" THEN Ms(v.n) ELSE NaN

\* a > b on time values: every comparison with NaN is false
DateGt(a, b) == ~a.nan /\ ~b.nan /\ a.ms > b.ms

\* a - b on time values
DateMinus(a, b) == IF a.nan \/ b.nan THEN NaN ELSE Ms(a.ms - b.ms)

\* Math.round(x / d) for d > 0: the nearest integer, a tie towards +infinity
RoundDiv(x, d) == (2 * x + d) \div (2 * d)

MathRoundDiv(a, d) == IF a.nan THEN NaN ELSE Ms(RoundDiv(a.ms, d))

---------------------------------------------------------------------------
(* Token strings *)

TOKEN_PREFIX == "token"
HexLen == 64
MsPerSecond == 1000

\* A decoded payload: jk = "garbage" is text JSON.parse throws on, "null" the
\* JSON null, "scalar" a JSON number, string, boolean or array (a value whose
\* properties are all undefined), "object" an object with the three fields.
Garbage == [jk |-> "garbage", device_id |-> Undefined, issued_at |-> Undefined,
            expires_at |-> Undefined]
JNull == [jk |-> "null", device_id |-> Undefined, issued_at |-> Undefined,
          expires_at |-> Undefined]
JScalar == [jk |-> "scalar", device_id |-> Undefined, issued_at |-> Undefined,
            expires_at |-> Undefined]
Obj(d, i, e) == [jk |-> "object", device_id |-> d, issued_at |-> i, expires_at |-> e]

\* The characters of a segment: a literal text, or (lit = "") one of the
\* base64 spellings, numbered by form, of the JSON text of json.  Form 0 is
\* the spelling Buffer.toString("base64") produces; the others differ from it
\* in padding or in characters the decoder skips.
Chars(l, j, f) == [lit |-> l, json |-> j, form |-> f]

\* A segment: kind "plain" has the characters chars; kind "hex" is the hex
\* digest of HMAC-SHA256(key, chars) with one character replaced as edit says
\* ("none": unchanged, "hex": another lower-case hex digit, "case": the same
\* digit in upper case, "wide": a character of two UTF-8 bytes).
Lit(l, n) == [kind |-> "plain", chars |-> Chars(l, Garbage, 0), key |-> "",
              edit |-> "none", len |-> n]
B64(j, f) == [kind |-> "plain", chars |-> Chars("", j, f), key |-> "",
              edit |-> "none", len |-> 0]
Hex(key, c, e) == [kind |-> "hex", chars |-> c, key |-> key, edit |-> e,
                   len |-> IF e = "wide" THEN HexLen + 1 ELSE HexLen]

\* Buffer.from(seg, "base64"): never throws, skips what is not base64, and
\* maps every spelling of a text to the same bytes.
Base64Decode(seg) ==
  IF seg.kind = "plain" /\ seg.chars.lit = "" THEN seg.chars.json ELSE Garbage

\* JSON.parse(buffer.toString())
JsonParse(bytes) ==
  IF bytes.jk = "garbage" THEN [threw |-> TRUE, value |-> Garbage]
  ELSE [threw |-> FALSE, value |-> bytes]

\* crypto.createHmac("sha256", secret).update(seg).digest("hex")
HmacHexFixedKey(secret, seg) == Hex("s1", seg.chars, "none")
HmacHexDecoded(secret, seg) == Hex(secret, Chars("", Base64Decode(seg), 0), "none")
HmacHex(secret, seg) == Hex(secret, seg.chars, "none")

\* Buffer.from(seg).length
ByteLength(seg) == seg.len

\* crypto.timingSafeEqual(Buffer.from(a), Buffer.from(b)): RangeError when
\* the byte lengths differ
TimingSafeEqualHexValue(a, b) ==
  [threw |-> ByteLength(a) # ByteLength(b),
   equal |-> a.kind = b.kind /\ a.chars = b.chars /\ a.key = b.key
             /\ (a.edit = b.edit \/ {a.edit, b.edit} = {"none", "case"})]
TimingSafeEqual(a, b) ==
  [threw |-> ByteLength(a) # ByteLength(b), equal |-> a = b]

\* token.split("_"); a value that is not a string has no split method
TokStr(parts) == [k |-> "string", parts |-> parts]
TokUndefined == [k |-> "undefined", parts |-> <<>>]
TokNull == [k |-> "null", parts |-> <<>>]
TokNumber == [k |-> "number", parts |-> <<>>]
EmptyString == TokStr(<<Lit("", 0)>>)

TokFalsy(token) == token.k \in {"undefined", "null"} \/ token = EmptyString

---------------------------------------------------------------------------
(* validateToken *)

NoAge == NaN

\* what a call produced: ret = null is ok = FALSE
Outcome(ok, threw, reason, hmac, d, i, e, age) ==
  [ok |-> ok, threw |-> threw, reason |-> reason, hmac |-> hmac,
   device_id |-> d, issued_at |-> i, expires_at |-> e, age_seconds |-> age]

Deny(reason, hmac) ==
  Outcome(FALSE, FALSE, reason, hmac, Undefined, Undefined, Undefined, NoAge)
Throw(hmac) ==
  Outcome(FALSE, TRUE, "", hmac, Undefined, Undefined, Undefined, NoAge)

\* lines 65-83: the expiry check and the result
CheckExpiryReversed(p, t) ==
  LET expiresAt == NewDate(p.expires_at)
  IN  IF DateGt(expiresAt, Ms(t))
      THEN Deny("expired", TRUE)
      ELSE Outcome(TRUE, FALSE, "", TRUE, p.device_id, p.issued_at, p.expires_at,
                   MathRoundDiv(DateMinus(Ms(t), NewDate(p.issued_at)), MsPerSecond))
CheckExpiryNever(p, t) ==
  Outcome(TRUE, FALSE, "", TRUE, p.device_id, p.issued_at, p.expires_at,
          MathRoundDiv(DateMinus(Ms(t), NewDate(p.issued_at)), MsPerSecond))
CheckExpiry(p, t) ==
  LET expiresAt == NewDate(p.expires_at)
  IN  IF DateGt(Ms(t), expiresAt)
      THEN Deny("expired", TRUE)
      ELSE Outcome(TRUE, FALSE, "", TRUE, p.device_id, p.issued_at, p.expires_at,
                   MathRoundDiv(DateMinus(Ms(t), NewDate(p.issued_at)), MsPerSecond))

\* lines 53-63: the signature check
CheckSignature(payloadB64, signature, p, secret, t) ==
  IF secret.k # "string" THEN Throw(FALSE)
  ELSE LET expectedSignature == HmacHex(secret.s, payloadB64)
           cmp == TimingSafeEqual(signature, expectedSignature)
       IN  IF cmp.threw THEN Throw(TRUE)
           ELSE IF ~cmp.equal THEN Deny("signature invalid", TRUE)
           ELSE CheckExpiry(p, t)

\* lines 47-51: the device check; reading a property of null throws
DeviceMatchesAny(p, deviceId) == TRUE
DeviceMatches(p, deviceId) == p.device_id = deviceId

\* lines 22-83: the body of the outer try
ValidateTokenTrySignatureFirst(token, deviceId, secret, t) ==
  IF TokFalsy(token) \/ Falsy(deviceId) \/ Falsy(secret)
  THEN Deny("missing parameters", FALSE)
  ELSE IF token.k # "string" THEN Throw(FALSE)
  ELSE LET parts == token.parts
       IN  IF Len(parts) # 3 \/ parts[1] # Lit(TOKEN_PREFIX, 5)
           THEN Deny("invalid format", FALSE)
           ELSE LET parsed == JsonParse(Base64Decode(parts[2]))
                    signed == CheckSignature(parts[2], parts[3], parsed.value, secret, t)
                IN  IF parsed.threw THEN Deny("payload decode failed", FALSE)
                    ELSE IF parsed.value.jk = "null" THEN Throw(FALSE)
                    ELSE IF ~signed.ok /\ signed.reason # "expired" THEN signed
                    ELSE IF ~DeviceMatches(parsed.value, deviceId)
                    THEN Deny("device_id mismatch", TRUE)
                    ELSE signed
ValidateTokenTry(token, deviceId, secret, t) ==
  IF TokFalsy(token) \/ Falsy(deviceId) \/ Falsy(secret)
  THEN Deny("missing parameters", FALSE)
  ELSE IF token.k # "string" THEN Throw(FALSE)
  ELSE LET parts == token.parts
       IN  IF Len(parts) # 3 \/ parts[1] # Lit(TOKEN_PREFIX, 5)
           THEN Deny("invalid format", FALSE)
           ELSE LET payloadB64 == parts[2]
                    signature == parts[3]
                    parsed == JsonParse(Base64Decode(payloadB64))
                IN  IF parsed.threw THEN Deny("payload decode failed", FALSE)
                    ELSE IF parsed.value.jk = "null" THEN Throw(FALSE)
                    ELSE IF ~DeviceMatches(parsed.value, deviceId)
                    THEN Deny("device_id mismatch", FALSE)
                    ELSE CheckSignature(payloadB64, signature, parsed.value, secret, t)

\* lines 21-88: the outer catch turns every exception into null
ValidateTokenNoCatch(token, deviceId, secret, t) ==
  ValidateTokenTry(token, deviceId, secret, t)
ValidateToken(token, deviceId, secret, t) ==
  LET r == ValidateTokenTry(token, deviceId, secret, t)
  IN  IF r.threw THEN Deny("Token validation error", r.hmac) ELSE r

---------------------------------------------------------------------------
(* shouldRotateToken *)

RotationThresholdMs == 6 * 60 * 60 * 1000

\* a < b on time values
DateLt(a, b) == ~a.nan /\ ~b.nan /\ a.ms < b.ms

ShouldRotateTokenInclusive(tokenInfo, t) ==
  IF ~tokenInfo.ok THEN TRUE
  ELSE LET timeUntilExpiry == DateMinus(NewDate(tokenInfo.expires_at), Ms(t))
       IN  ~timeUntilExpiry.nan /\ timeUntilExpiry.ms <= RotationThresholdMs
ShouldRotateToken(tokenInfo, t) ==
  IF ~tokenInfo.ok THEN TRUE
  ELSE LET expiresAt == NewDate(tokenInfo.expires_at)
           timeUntilExpiry == DateMinus(expiresAt, Ms(t))
       IN  DateLt(timeUntilExpiry, Ms(RotationThresholdMs))

---------------------------------------------------------------------------
(* getTokenInfo *)

\* lines 120-135: the body of the try
GetTokenInfoTryChecked(token) ==
  IF TokFalsy(token) THEN Deny("", FALSE)
  ELSE IF token.k # "string" THEN Throw(FALSE)
  ELSE LET parts == token.parts
       IN  IF Len(parts) # 3 \/ parts[1] # Lit(TOKEN_PREFIX, 5) THEN Deny("", FALSE)
           ELSE LET parsed == JsonParse(Base64Decode(parts[2]))
                IN  IF parsed.threw \/ parsed.value.jk = "null" THEN Throw(FALSE)
                    ELSE IF parts[3].kind # "hex" \/ parts[3].edit # "none"
                              \/ parts[3].chars # parts[2].chars
                    THEN Deny("", FALSE)
                    ELSE Outcome(TRUE, FALSE, "", FALSE, parsed.value.device_id,
                                 parsed.value.issued_at, parsed.value.expires_at, NoAge)
GetTokenInfoTry(token) ==
  IF TokFalsy(token) THEN Deny("", FALSE)
  ELSE IF token.k # "string" THEN Throw(FALSE)
  ELSE LET parts == token.parts
       IN  IF Len(parts) # 3 \/ parts[1] # Lit(TOKEN_PREFIX, 5) THEN Deny("", FALSE)
           ELSE LET parsed == JsonParse(Base64Decode(parts[2]))
                IN  IF parsed.threw \/ parsed.value.jk = "null" THEN Throw(FALSE)
                    ELSE Outcome(TRUE, FALSE, "", FALSE, parsed.value.device_id,
                                 parsed.value.issued_at, parsed.value.expires_at, NoAge)

\* lines 118-139: the catch returns null
GetTokenInfo(token) ==
  LET r == GetTokenInfoTry(token)
  IN  IF r.threw THEN Deny("", FALSE) ELSE r

---------------------------------------------------------------------------
(* TokenRateLimiter *)

DefaultMaxAttempts == 10
DefaultWindowMs == 60000

NoEntry == [has |-> FALSE, count |-> 0, firstTime |-> 0]
Entry(c, f) == [has |-> TRUE, count |-> c, firstTime |-> f]

\* isAllowed(deviceId) at time t: the answer and the map it leaves
IsAllowedUncountedFirst(att, deviceId, t, maxAttempts, windowMs) ==
  LET attempt == att[deviceId]
  IN  IF ~attempt.has \/ t - attempt.firstTime > windowMs
      THEN [allowed |-> TRUE, attempts |-> [att EXCEPT ![deviceId] = Entry(0, t)]]
      ELSE IF attempt.count >= maxAttempts
      THEN [allowed |-> FALSE, attempts |-> att]
      ELSE [allowed |-> TRUE,
            attempts |-> [att EXCEPT ![deviceId] = Entry(attempt.count + 1, attempt.firstTime)]]
IsAllowedWindowInclusive(att, deviceId, t, maxAttempts, windowMs) ==
  LET attempt == att[deviceId]
  IN  IF ~attempt.has \/ t - attempt.firstTime >= windowMs
      THEN [allowed |-> TRUE, attempts |-> [att EXCEPT ![deviceId] = Entry(1, t)]]
      ELSE IF attempt.count >= maxAttempts
      THEN [allowed |-> FALSE, attempts |-> att]
      ELSE [allowed |-> TRUE,
            attempts |-> [att EXCEPT ![deviceId] = Entry(attempt.count + 1, attempt.firstTime)]]
IsAllowedSharedEntry(att, deviceId, t, maxAttempts, windowMs) ==
  LET attempt == att[deviceId]
  IN  IF ~attempt.has \/ t - attempt.firstTime > windowMs
      THEN [allowed |-> TRUE, attempts |-> [d \in DOMAIN att |-> Entry(1, t)]]
      ELSE IF attempt.count >= maxAttempts
      THEN [allowed |-> FALSE, attempts |-> att]
      ELSE [allowed |-> TRUE,
            attempts |-> [d \in DOMAIN att |-> Entry(attempt.count + 1, attempt.firstTime)]]
IsAllowedLostIncrement(att, deviceId, t, maxAttempts, windowMs) ==
  LET attempt == att[deviceId]
  IN  IF ~attempt.has \/ t - attempt.firstTime > windowMs
      THEN [allowed |-> TRUE, attempts |-> [att EXCEPT ![deviceId] = Entry(1, t)]]
      ELSE IF attempt.count >= maxAttempts
      THEN [allowed |-> FALSE, attempts |-> att]
      ELSE [allowed |-> TRUE, attempts |-> att]
IsAllowedDeniedRestarts(att, deviceId, t, maxAttempts, windowMs) ==
  LET attempt == att[deviceId]
  IN  IF ~attempt.has
      THEN [allowed |-> TRUE, attempts |-> [att EXCEPT ![deviceId] = Entry(1, t)]]
      ELSE IF t - attempt.firstTime > windowMs
      THEN [allowed |-> TRUE, attempts |-> [att EXCEPT ![deviceId] = Entry(1, t)]]
      ELSE IF attempt.count >= maxAttempts
      THEN [allowed |-> FALSE,
            attempts |-> [att EXCEPT ![deviceId] = Entry(attempt.count, t)]]
      ELSE [allowed |-> TRUE,
            attempts |-> [att EXCEPT ![deviceId] = Entry(attempt.count + 1, attempt.firstTime)]]
IsAllowedCountsDenied(att, deviceId, t, maxAttempts, windowMs) ==
  LET attempt == att[deviceId]
  IN  IF ~attempt.has
      THEN [allowed |-> TRUE, attempts |-> [att EXCEPT ![deviceId] = Entry(1, t)]]
      ELSE IF t - attempt.firstTime > windowMs
      THEN [allowed |-> TRUE, attempts |-> [att EXCEPT ![deviceId] = Entry(1, t)]]
      ELSE [allowed |-> attempt.count < maxAttempts,
            attempts |-> [att EXCEPT ![deviceId] = Entry(attempt.count + 1, attempt.firstTime)]]
IsAllowed(att, deviceId, t, maxAttempts, windowMs) ==
  LET attempt == att[deviceId]
  IN  IF ~attempt.has
      THEN [allowed |-> TRUE, attempts |-> [att EXCEPT ![deviceId] = Entry(1, t)]]
      ELSE IF t - attempt.firstTime > windowMs
      THEN [allowed |-> TRUE, attempts |-> [att EXCEPT ![deviceId] = Entry(1, t)]]
      ELSE IF attempt.count >= maxAttempts
      THEN [allowed |-> FALSE, attempts |-> att]
      ELSE [allowed |-> TRUE,
            attempts |-> [att EXCEPT ![deviceId] = Entry(attempt.count + 1, attempt.firstTime)]]

\* getRemainingAttempts(deviceId) at time t
GetRemainingAttemptsIgnoringWindow(att, deviceId, t, maxAttempts, windowMs) ==
  LET attempt == att[deviceId]
  IN  IF ~attempt.has THEN maxAttempts
      ELSE IF maxAttempts - attempt.count > 0 THEN maxAttempts - attempt.count
      ELSE 0
GetRemainingAttempts(att, deviceId, t, maxAttempts, windowMs) ==
  LET attempt == att[deviceId]
  IN  IF ~attempt.has THEN maxAttempts
      ELSE IF t - attempt.firstTime > windowMs THEN maxAttempts
      ELSE IF maxAttempts - attempt.count > 0 THEN maxAttempts - attempt.count
      ELSE 0

\* reset(deviceId)
ResetCountOnly(att, deviceId) == [att EXCEPT ![deviceId].count = 0]
Reset(att, deviceId) == [att EXCEPT ![deviceId] = NoEntry]

\* cleanup() at time t
CleanupAfterWindow(att, t, windowMs) ==
  [d \in DOMAIN att |->
     IF att[d].has /\ t - att[d].firstTime > windowMs THEN NoEntry ELSE att[d]]
CleanupEveryEntry(att, t, windowMs) == [d \in DOMAIN att |-> NoEntry]
Cleanup(att, t, windowMs) ==
  [d \in DOMAIN att |->
     IF att[d].has /\ t - att[d].firstTime > windowMs * 2 THEN NoEntry ELSE att[d]]

---------------------------------------------------------------------------
(* The inputs the calls are made with *)

Devices == {"devA", "devB"}
Secrets == {"s1", "s2"}
\* the keys tokens are signed with: HMAC accepts the empty key too
SignKeys == Secrets \cup {""}
Forms == 0..MaxForm
Edits == {"none", "hex", "case", "wide"}
LastInstant == MaxTick * TickMs

DeviceArgs == {Str(d) : d \in Devices}
SecretArgs == {Str(k) : k \in Secrets}
OddArgs == {Str(""), Undefined, Null, Num(7)}

PayloadValues ==
  {Garbage, JNull, JScalar}
  \cup {Obj(d, i, e) :
          d \in DeviceArgs \cup {Undefined},
          i \in {Iso(TickMs), Undefined},
          e \in {Iso(t) : t \in Instants} \cup {Undefined, Null, Str("not a date")}}

PayloadSegs == {B64(j, f) : j \in PayloadValues, f \in Forms}

\* createValidToken of the tests: the token an issuer makes for a payload
Prefix == Lit(TOKEN_PREFIX, 5)
CreateToken(payload, secret) ==
  TokStr(<<Prefix, B64(payload, 0), HmacHex(secret, B64(payload, 0))>>)

\* the payloads of tokens issued for a device, valid until the last instant
IssuedPayloads == {Obj(Str(d), Iso(TickMs), Iso(LastInstant)) : d \in Devices}
IssuedChars == {Chars("", j, f) : j \in IssuedPayloads, f \in Forms}

\* the signature segments tried with the payload segment seg
SigsFor(seg) ==
  {Hex(k, seg.chars, e) : k \in SignKeys, e \in Edits}
  \cup {Hex(k, c, "none") : k \in Secrets, c \in IssuedChars}
  \cup {Lit("invalidsignature", 16)}

Tokens3 ==
  UNION {{TokStr(<<Prefix, seg, sig>>) : sig \in SigsFor(seg)} : seg \in PayloadSegs}

\* a signature with one character replaced by "_" splits in two
Tokens4 ==
  {TokStr(<<Prefix, B64(j, 0), Lit("digest head", 1), Lit("digest tail", HexLen - 2)>>) :
     j \in IssuedPayloads}

OddTokens ==
  {TokUndefined, TokNull, TokNumber, EmptyString,
   TokStr(<<Lit("invalid", 7), Lit("token", 5)>>)}
  \cup {TokStr(<<Lit("bearer", 6), B64(j, 0), HmacHex(k, B64(j, 0))>>) :
          j \in IssuedPayloads, k \in Secrets}

Tokens == Tokens3 \cup Tokens4 \cup OddTokens

\* the argument lists: every token with every device and secret, and with
\* one argument that is absent, empty or not a string
ArgLists ==
  (DeviceArgs \X SecretArgs)
  \cup {<<d, Str("s1")>> : d \in OddArgs}
  \cup {<<Str("devA"), k>> : k \in OddArgs}

---------------------------------------------------------------------------
(* The state machine: a clock and the last call of an exported function *)

NoCall == [fn |-> "none", token |-> TokUndefined, deviceId |-> Undefined,
           secret |-> Undefined, at |-> 0, out |-> Deny("", FALSE),
           info |-> Deny("", FALSE), rotate |-> FALSE,
           allowed |-> FALSE, remaining |-> 0, before |-> NoEntry]

NoRequest == [busy |-> FALSE, deviceId |-> "", auth |-> "none", token |-> TokUndefined,
              allowed |-> FALSE, validated |-> FALSE, info |-> Deny("", FALSE),
              status |-> 0, error |-> "", rotate |-> FALSE]

\* the window of a key as the calls define it: open from the first isAllowed
\* after construction, reset or the end of the window before, with the
\* isAllowed calls made in it and those of them that were allowed; recent
\* lists the calls made less than a window length before the last one
NoWindow == [open |-> FALSE, start |-> 0, calls |-> 0, granted |-> 0, recent |-> <<>>]

\* a request whose handler has started: pc is "idle" for a free connection,
\* "awaiting" while the handler awaits getScreenshot
NoFlight == [pc |-> "idle", deviceId |-> "", status |-> 0]

\* a call of initializeBrowser: seen is the browser it found, got the one it
\* returned, 0 for none
NoInitCall == [pc |-> "idle", seen |-> 0, launching |-> 0, got |-> 0]

\* the page of one capture: pc is the step of captureScreenshot that is
\* awaited, attempt and lastError the variables of its navigation loop;
\* gotos lists how the page.goto calls ended, failed names the step that
\* threw, closeCalls counts the page.close() calls
NoPage == [pc |-> "none", haToken |-> FALSE, attempt |-> 0, lastError |-> FALSE,
           gotos |-> <<>>, selector |-> "", shot |-> FALSE, failed |-> "",
           closeCalls |-> 0, closed |-> FALSE, out |-> "pending", capture |-> 1]

\* a saveScreenshot call: fd is the file writeFile has open, written the
\* chunks it has written
NoSave == [pc |-> "idle", fd |-> 0, written |-> 0]

\* a getScreenshot call: data is what it returned, <<>> with found = FALSE
\* for null
NoRead == [pc |-> "idle", found |-> FALSE, data |-> <<>>]

\* the modules of the service as they are loaded
InitService ==
  /\ browser = 0
  /\ initCalls = [p \in 1..MaxInitCalls |-> NoInitCall]
  /\ closer = "idle"
  /\ launches = 0
  /\ launched = 0
  /\ page = NoPage
  /\ disk = [tmp |-> 0, final |-> 0]
  /\ inodes = [i \in 1..MaxSaves |-> <<>>]
  /\ saves = [w \in 1..MaxSaves |-> NoSave]
  /\ reads = [r \in 1..MaxReads |-> NoRead]
  /\ socket = "none"
  /\ reconnectAttempts = 0
  /\ timer = FALSE
  /\ sinceOpen = 0
  /\ opens = 0

\* TOKEN_SECRET is the environment's secret, or "" when it sets none
Init ==
  /\ now = 0
  /\ call = NoCall
  /\ tokenSecret \in {Str("s1"), Str("")}
  /\ attempts = [d \in Devices |-> NoEntry]
  /\ http = NoRequest
  /\ requests = [d \in Devices |-> 0]
  /\ limiter = [maxAttempts |-> DefaultMaxAttempts, windowMs |-> DefaultWindowMs]
  /\ window = [d \in Devices |-> NoWindow]
  /\ inflight = [r \in 1..MaxInFlight |-> NoFlight]
  /\ activeCaptures = 0
  /\ captureQueue = <<>>
  /\ captures = [i \in 1..MaxCaptureCalls |-> "none"]
  /\ unswept = [d \in Devices |-> NoEntry]
  /\ InitService

\* time passes between calls
Tick ==
  /\ call.fn = "none"
  /\ ~http.busy
  /\ now < LastInstant
  /\ now' = now + TickMs
  /\ UNCHANGED <<call, tokenSecret, attempts, http, requests, limiter, window, inflight, captureVars, unswept, serviceVars>>

\* validateToken called as isAllowed is, an attempt of the deviceId consumed
ValidateTokenCallsCounting(tokens, args) ==
  /\ call.fn = "none"
  /\ \E token \in tokens, a \in args :
       /\ call' = [fn |-> "validateToken", token |-> token, deviceId |-> a[1],
                   secret |-> a[2], at |-> now,
                   out |-> ValidateToken(token, a[1], a[2], now),
                   info |-> Deny("", FALSE), rotate |-> FALSE,
                   allowed |-> FALSE, remaining |-> 0, before |-> NoEntry]
       /\ attempts' = IF a[1] \in DeviceArgs
                         THEN IsAllowed(attempts, a[1].s, now, limiter.maxAttempts,
                                        limiter.windowMs).attempts
                         ELSE attempts
  /\ UNCHANGED <<now, tokenSecret, http, requests, limiter, window, inflight, captureVars, unswept, serviceVars>>

\* validateToken(token, deviceId, secret) called with a token of tokens and
\* an argument list of args
ValidateTokenCalls(tokens, args) ==
  /\ call.fn = "none"
  /\ \E token \in tokens, a \in args :
       call' = [fn |-> "validateToken", token |-> token, deviceId |-> a[1],
                secret |-> a[2], at |-> now,
                out |-> ValidateToken(token, a[1], a[2], now),
                info |-> Deny("", FALSE), rotate |-> FALSE,
                allowed |-> FALSE, remaining |-> 0, before |-> NoEntry]
  /\ UNCHANGED <<now, tokenSecret, attempts, http, requests, limiter, window, inflight, captureVars, unswept, serviceVars>>

CallValidateToken == ValidateTokenCalls(Tokens, ArgLists)

Return ==
  /\ call.fn # "none"
  /\ call' = NoCall
  /\ UNCHANGED <<now, tokenSecret, attempts, http, requests, limiter, window, inflight, captureVars, unswept, serviceVars>>

\* shouldRotateToken(tokenInfo): tokenInfo is null or a validation result
\* whose expires_at lies around the threshold after now, or is no date
HourMs == 60 * 60 * 1000

TokenInfos(t) ==
  {Deny("", FALSE)}
  \cup {Outcome(TRUE, FALSE, "", TRUE, Str("devA"), Iso(t), e, Ms(0)) :
          e \in {Iso(t + 5 * HourMs), Iso(t + 6 * HourMs - 1), Iso(t + 6 * HourMs),
                 Iso(t + 6 * HourMs + 1), Iso(t + 23 * HourMs), Iso(t),
                 Undefined, Str("not a date")}}

CallShouldRotateToken ==
  /\ call.fn = "none"
  /\ \E tokenInfo \in TokenInfos(now) :
       call' = [NoCall EXCEPT !.fn = "shouldRotateToken", !.at = now,
                              !.info = tokenInfo,
                              !.rotate = ShouldRotateToken(tokenInfo, now)]
  /\ UNCHANGED <<now, tokenSecret, attempts, http, requests, limiter, window, inflight, captureVars, unswept, serviceVars>>

\* getTokenInfo(token) called with a token of tokens
GetTokenInfoCalls(tokens) ==
  /\ call.fn = "none"
  /\ \E token \in tokens :
       call' = [NoCall EXCEPT !.fn = "getTokenInfo", !.token = token, !.at = now,
                              !.out = GetTokenInfo(token)]
  /\ UNCHANGED <<now, tokenSecret, attempts, http, requests, limiter, window, inflight,
                 captureVars, unswept, serviceVars>>

CallGetTokenInfo == GetTokenInfoCalls(Tokens)

Next == Tick \/ CallValidateToken \/ CallShouldRotateToken \/ CallGetTokenInfo \/ Return

Spec == Init /\ [][Next]_vars

---------------------------------------------------------------------------
(* A rate limiter of its own: new TokenRateLimiter(maxAttempts, windowMs) *)

MaxAttemptsBound == 3
MaxCalls == MaxAttemptsBound + 2

LimiterConfigs ==
  {[maxAttempts |-> n, windowMs |-> w] : n \in 1..MaxAttemptsBound, w \in {TickMs, 2 * TickMs}}

InitLimiter ==
  /\ now = 0
  /\ call = NoCall
  /\ tokenSecret = Str("s1")
  /\ attempts = [d \in Devices |-> NoEntry]
  /\ http = NoRequest
  /\ requests = [d \in Devices |-> 0]
  /\ limiter \in LimiterConfigs
  /\ window = [d \in Devices |-> NoWindow]
  /\ inflight = [r \in 1..MaxInFlight |-> NoFlight]
  /\ activeCaptures = 0
  /\ captureQueue = <<>>
  /\ captures = [i \in 1..MaxCaptureCalls |-> "none"]
  /\ unswept = [d \in Devices |-> NoEntry]
  /\ InitService

\* the window of the key after an isAllowed call at time t
RecentAfter(recent, t, allowed) ==
  LET Near(c) == t - c.at < limiter.windowMs
  IN  Append(SelectSeq(recent, Near), [at |-> t, allowed |-> allowed])

WindowAfter(w, t, allowed) ==
  IF ~w.open \/ t - w.start > limiter.windowMs
  THEN [open |-> TRUE, start |-> t, calls |-> 1, granted |-> IF allowed THEN 1 ELSE 0,
        recent |-> RecentAfter(w.recent, t, allowed)]
  ELSE [w EXCEPT !.calls = @ + 1, !.granted = IF allowed THEN @ + 1 ELSE @,
                 !.recent = RecentAfter(@, t, allowed)]

CallIsAllowed ==
  /\ call.fn = "none"
  /\ \E deviceId \in Devices :
       LET r == IsAllowed(attempts, deviceId, now, limiter.maxAttempts, limiter.windowMs)
           w == WindowAfter(window[deviceId], now, r.allowed)
       IN  /\ w.calls <= MaxCalls
           /\ call' = [NoCall EXCEPT !.fn = "isAllowed", !.deviceId = Str(deviceId),
                                      !.at = now, !.allowed = r.allowed,
                                      !.before = attempts[deviceId]]
           /\ attempts' = r.attempts
           /\ window' = [window EXCEPT ![deviceId] = w]
           /\ unswept' = IsAllowed(unswept, deviceId, now, limiter.maxAttempts,
                                   limiter.windowMs).attempts
  /\ UNCHANGED <<now, tokenSecret, http, requests, limiter, inflight, captureVars, serviceVars>>

CallGetRemainingAttempts ==
  /\ call.fn = "none"
  /\ \E deviceId \in Devices :
       call' = [NoCall EXCEPT !.fn = "getRemainingAttempts", !.deviceId = Str(deviceId),
                              !.at = now,
                              !.remaining = GetRemainingAttempts(attempts, deviceId, now,
                                              limiter.maxAttempts, limiter.windowMs),
                              !.before = attempts[deviceId]]
  /\ UNCHANGED <<now, tokenSecret, attempts, http, requests, limiter, window, inflight, captureVars, unswept, serviceVars>>

CallReset ==
  /\ call.fn = "none"
  /\ \E deviceId \in Devices :
       /\ call' = [NoCall EXCEPT !.fn = "reset", !.deviceId = Str(deviceId), !.at = now,
                                  !.before = attempts[deviceId]]
       /\ attempts' = Reset(attempts, deviceId)
       /\ window' = [window EXCEPT ![deviceId] = NoWindow]
       /\ unswept' = Reset(unswept, deviceId)
  /\ UNCHANGED <<now, tokenSecret, http, requests, limiter, inflight, captureVars, serviceVars>>

CallCleanup ==
  /\ call.fn = "none"
  /\ call' = [NoCall EXCEPT !.fn = "cleanup", !.at = now]
  /\ attempts' = Cleanup(attempts, now, limiter.windowMs)
  /\ UNCHANGED <<now, tokenSecret, http, requests, limiter, window, inflight, captureVars, unswept, serviceVars>>

NextLimiter ==
  Tick \/ CallIsAllowed \/ CallGetRemainingAttempts \/ CallReset \/ CallCleanup \/ Return

SpecLimiter == InitLimiter /\ [][NextLimiter]_vars

---------------------------------------------------------------------------
(* The HTTP server: GET /trmnl/screenshot/:device_id *)

\* the lifetime the issuer gives a token: 24 hours
DayMs == 24 * 60 * 60 * 1000

\* the bearer tokens requests carry
IssuedToken(d, k) == CreateToken(Obj(Str(d), Iso(TickMs), Iso(LastInstant)), k)

HttpTokens ==
  {IssuedToken(d, k) : d \in Devices, k \in Secrets}
  \cup {CreateToken(Obj(Str(d), Iso(0), Iso(TickMs)), "s1") : d \in Devices}
  \cup {CreateToken(Obj(Str(d), Iso(0), Undefined), "s1") : d \in Devices}
  \cup {TokStr(<<Prefix, B64(Obj(Str("devA"), Iso(TickMs), Iso(LastInstant)), 0),
                 Lit("invalidsignature", 16)>>),
        TokStr(<<Lit("invalid", 7), Lit("token", 5)>>)}
  \cup {CreateToken(Obj(Str("devA"), Iso(0), Iso(DayMs)), "s1"),
        CreateToken(Garbage, "s1"),
        TokStr(<<Lit("bearer", 6), B64(Obj(Str("devA"), Iso(0), Iso(DayMs)), 0),
                 HmacHex("s1", B64(Obj(Str("devA"), Iso(0), Iso(DayMs)), 0))>>),
        TokStr(<<Prefix, B64(Obj(Str("devA"), Iso(0), Iso(DayMs)), 0),
                 Hex("s1", Chars("", Obj(Str("devA"), Iso(0), Iso(DayMs)), 0), "hex")>>)}

\* the Authorization header: absent, another scheme, or "Bearer <token>"
Headers ==
  {[auth |-> "none", token |-> TokUndefined], [auth |-> "basic", token |-> TokUndefined]}
  \cup {[auth |-> "bearer", token |-> tok] : tok \in HttpTokens}

Response(deviceId, h, allowed, validated, info, status, error, rotate) ==
  [busy |-> TRUE, deviceId |-> deviceId, auth |-> h.auth, token |-> h.token,
   allowed |-> allowed, validated |-> validated, info |-> info,
   status |-> status, error |-> error, rotate |-> rotate]

\* lines 369-375: the token is verified against the device of the path;
\* a failure of any kind gets the one answer
AuthorizeUnverified(deviceId, h) ==
  LET info == GetTokenInfo(h.token)
  IN  IF info.ok /\ info.device_id = Str(deviceId) THEN info
      ELSE Deny("device_id mismatch", FALSE)
Authorize(deviceId, h) == ValidateToken(h.token, Str(deviceId), tokenSecret, now)

DenyInvalidWithReason(deviceId, h, tokenInfo) ==
  Response(deviceId, h, TRUE, TRUE, tokenInfo, 401, tokenInfo.reason, FALSE)
DenyInvalid(deviceId, h, tokenInfo) ==
  Response(deviceId, h, TRUE, TRUE, tokenInfo, 401, "Invalid or expired token", FALSE)

\* lines 377-399: the rotation header, then the screenshot or 404; shot is
\* what getScreenshot resolves to
ServeRotateWithImageOnly(deviceId, h, tokenInfo, shot) ==
  IF shot = "null"
  THEN Response(deviceId, h, TRUE, TRUE, tokenInfo, 404, "Screenshot not found", FALSE)
  ELSE Response(deviceId, h, TRUE, TRUE, tokenInfo, 200, "",
                ShouldRotateToken(tokenInfo, now))
Serve(deviceId, h, tokenInfo, shot) ==
  IF shot = "null"
  THEN Response(deviceId, h, TRUE, TRUE, tokenInfo, 404, "Screenshot not found",
                ShouldRotateToken(tokenInfo, now))
  ELSE Response(deviceId, h, TRUE, TRUE, tokenInfo, 200, "",
                ShouldRotateToken(tokenInfo, now))

\* the handler up to its response, given the limiter's answer lim
HandleValidateFirst(deviceId, h, shot, lim) ==
  IF h.auth # "bearer"
  THEN IF ~lim.allowed
       THEN Response(deviceId, h, FALSE, FALSE, Deny("", FALSE), 429,
                     "Too many requests", FALSE)
       ELSE Response(deviceId, h, TRUE, FALSE, Deny("", FALSE), 401,
                     "Missing or invalid authorization", FALSE)
  ELSE LET tokenInfo == Authorize(deviceId, h)
       IN  IF ~tokenInfo.ok THEN DenyInvalid(deviceId, h, tokenInfo)
           ELSE IF ~lim.allowed
           THEN Response(deviceId, h, FALSE, TRUE, tokenInfo, 429,
                         "Too many requests", FALSE)
           ELSE Serve(deviceId, h, tokenInfo, shot)
Handle(deviceId, h, shot, lim) ==
  IF ~lim.allowed
  THEN Response(deviceId, h, FALSE, FALSE, Deny("", FALSE), 429, "Too many requests", FALSE)
  ELSE IF h.auth # "bearer"
  THEN Response(deviceId, h, TRUE, FALSE, Deny("", FALSE), 401,
                "Missing or invalid authorization", FALSE)
  ELSE LET tokenInfo == Authorize(deviceId, h)
       IN  IF ~tokenInfo.ok
           THEN DenyInvalid(deviceId, h, tokenInfo)
           ELSE Serve(deviceId, h, tokenInfo, shot)

\* lines 352-359: the exported limiter is asked first, for every request
ConsultLimiterBearerOnly(att, deviceId, h, t) ==
  IF h.auth = "bearer"
  THEN IsAllowed(att, deviceId, t, DefaultMaxAttempts, DefaultWindowMs)
  ELSE [allowed |-> TRUE, attempts |-> att]
ConsultLimiter(att, deviceId, h, t) ==
  IsAllowed(att, deviceId, t, DefaultMaxAttempts, DefaultWindowMs)

\* requests counts, for the properties, the requests made for each device;
\* the clock never leaves the window the first of them opens
HandleScreenshotRequest ==
  /\ call.fn = "none"
  /\ ~http.busy
  /\ \E deviceId \in Devices, h \in Headers, shot \in {"png", "null"} :
       LET lim == ConsultLimiter(attempts, deviceId, h, now)
       IN  /\ requests[deviceId] < MaxRequests
           /\ requests' = [requests EXCEPT ![deviceId] = @ + 1]
           /\ attempts' = lim.attempts
           /\ http' = Handle(deviceId, h, shot, lim)
  /\ UNCHANGED <<now, call, tokenSecret, limiter, window, inflight, captureVars, unswept, serviceVars>>

\* the response is sent and the connection closed
Complete ==
  /\ http.busy
  /\ http' = NoRequest
  /\ UNCHANGED <<now, call, tokenSecret, attempts, requests, limiter, window, inflight, captureVars, unswept, serviceVars>>

NextServer == Tick \/ HandleScreenshotRequest \/ Complete

SpecServer == Init /\ [][NextServer]_vars

---------------------------------------------------------------------------
(* Requests handled concurrently: the handler runs to its first await,    *)
(* getScreenshot, in one piece; other handlers and the cleanup timer run   *)
(* before it resumes.  The limiter is one built with (maxAttempts,         *)
(* windowMs).                                                              *)

InFlightHeaders ==
  {[auth |-> "none", token |-> TokUndefined],
   [auth |-> "bearer", token |-> IssuedToken("devA", "s1")]}

\* lines 343-385: the handler of a request on a free connection up to the
\* await, or to the response it sends before
StartRequest ==
  /\ call.fn = "none"
  /\ \E r \in 1..MaxInFlight, deviceId \in Devices, h \in InFlightHeaders :
       LET lim == IsAllowed(attempts, deviceId, now, limiter.maxAttempts,
                            limiter.windowMs)
           w == WindowAfter(window[deviceId], now, lim.allowed)
           response == Handle(deviceId, h, "png", lim)
       IN  /\ inflight[r].pc = "idle"
           /\ \A q \in 1..(r - 1) : inflight[q].pc # "idle"
           /\ w.calls <= limiter.maxAttempts + 1
           /\ attempts' = lim.attempts
           /\ window' = [window EXCEPT ![deviceId] = w]
           /\ inflight' = [inflight EXCEPT ![r] =
                             IF response.status = 200
                             THEN [pc |-> "awaiting", deviceId |-> deviceId,
                                   status |-> response.status]
                             ELSE NoFlight]
  /\ UNCHANGED <<now, call, tokenSecret, http, requests, limiter, captureVars, unswept, serviceVars>>

\* lines 386-403: getScreenshot has resolved and the response is sent
SendResponse ==
  /\ call.fn = "none"
  /\ \E r \in 1..MaxInFlight :
       /\ inflight[r].pc = "awaiting"
       /\ inflight' = [inflight EXCEPT ![r] = NoFlight]
  /\ UNCHANGED <<now, call, tokenSecret, attempts, http, requests, limiter, window,
                 captureVars, unswept, serviceVars>>

NextInFlight == Tick \/ StartRequest \/ SendResponse \/ CallCleanup \/ Return

SpecInFlight == InitLimiter /\ [][NextInFlight]_vars

---------------------------------------------------------------------------
(* The capture queue: captureScreenshot, waitForQueueSlot, processQueue *)

\* MAX_CONCURRENT_CAPTURES of the environment
MAX_CONCURRENT == 2

CaptureIds == 1..MaxCaptureCalls

\* waitForQueueSlot() of capture i: the slot is taken at once, or the
\* callback that resolves the promise is queued
WaitForQueueSlotInclusive(active, queue, i) ==
  IF active <= MAX_CONCURRENT
  THEN [active |-> active + 1, queue |-> queue, resolved |-> TRUE]
  ELSE [active |-> active, queue |-> Append(queue, i), resolved |-> FALSE]
WaitForQueueSlot(active, queue, i) ==
  IF active < MAX_CONCURRENT
  THEN [active |-> active + 1, queue |-> queue, resolved |-> TRUE]
  ELSE [active |-> active, queue |-> Append(queue, i), resolved |-> FALSE]

\* processQueue(): callback is the capture whose promise is resolved, 0 if
\* the queue is empty
ProcessQueue(active, queue) ==
  IF Len(queue) > 0
  THEN [active |-> active + 1, queue |-> Tail(queue), callback |-> Head(queue)]
  ELSE [active |-> active - 1, queue |-> queue, callback |-> 0]

\* captureScreenshot is called: the calls are numbered as they come
CaptureScreenshot ==
  /\ \E i \in CaptureIds :
       LET slot == WaitForQueueSlot(activeCaptures, captureQueue, i)
       IN  /\ captures[i] = "none"
           /\ \A j \in 1..(i - 1) : captures[j] # "none"
           /\ activeCaptures' = slot.active
           /\ captureQueue' = slot.queue
           /\ captures' = [captures EXCEPT ![i] = IF slot.resolved THEN "running"
                                                  ELSE "queued"]
  /\ UNCHANGED <<now, call, tokenSecret, attempts, http, requests, limiter, window,
                 inflight, unswept, serviceVars>>

\* the work of capture i ends, with the image or with an error, and the
\* finally block releases the slot
Finish(i) ==
  /\ captures[i] = "running"
  /\ \E outcome \in {"resolved", "rejected"} :
       LET next == ProcessQueue(activeCaptures, captureQueue)
       IN  /\ activeCaptures' = next.active
           /\ captureQueue' = next.queue
           /\ captures' = [j \in CaptureIds |->
                             IF j = i THEN outcome
                             ELSE IF j = next.callback THEN "running"
                             ELSE captures[j]]
  /\ UNCHANGED <<now, call, tokenSecret, attempts, http, requests, limiter, window,
                 inflight, unswept, serviceVars>>

FinishCapture == \E i \in CaptureIds : Finish(i)

NextCapture == CaptureScreenshot \/ FinishCapture

SpecCapture == Init /\ [][NextCapture]_vars

\* every capture that is running eventually finishes
SpecCaptureFair == SpecCapture /\ \A i \in CaptureIds : WF_vars(Finish(i))

---------------------------------------------------------------------------
(* The token functions called beside a limiter in use: the callers of     *)
(* auth.js call validateToken, shouldRotateToken and getTokenInfo between  *)
(* the calls of the limiter's methods                                      *)

\* the tokens a caller holds: an issued one, one of another device, none
FrameTokens == {IssuedToken("devA", "s1"), IssuedToken("devB", "s1"), TokUndefined}

FrameArgs == DeviceArgs \X {Str("s1")}

CallValidateTokenBesideLimiter == ValidateTokenCalls(FrameTokens, FrameArgs)

CallGetTokenInfoBesideLimiter == GetTokenInfoCalls(FrameTokens)

NextFrame ==
  \/ Tick
  \/ CallIsAllowed
  \/ CallReset
  \/ CallCleanup
  \/ CallValidateTokenBesideLimiter
  \/ CallShouldRotateToken
  \/ CallGetTokenInfoBesideLimiter
  \/ Return

\* a limiter of the shortest window, so that windows end and entries go stale
InitFrame == InitLimiter /\ limiter.windowMs = TickMs

SpecFrame == InitFrame /\ [][NextFrame]_vars

---------------------------------------------------------------------------
(* The browser: screenshot.js keeps one Puppeteer browser in the module   *)
(* variable browser.  initializeBrowser runs to await puppeteer.launch in  *)
(* one piece and assigns browser when the launch settles; captureScreenshot *)
(* makes the same test, !browser, before it awaits initializeBrowser.      *)

InitCallers == 1..MaxInitCalls

\* lines 24-48: the call finds a browser and returns it, or invokes
\* puppeteer.launch and awaits it
InitializeBrowser(p) ==
  /\ initCalls[p].pc = "idle"
  /\ IF browser # 0
     THEN /\ initCalls' = [initCalls EXCEPT ![p] = [pc |-> "returned", seen |-> browser,
                                                    launching |-> 0, got |-> browser]]
          /\ UNCHANGED <<launches, launched>>
     ELSE /\ launched < MaxLaunches
          /\ launched' = launched + 1
          /\ launches' = launches + 1
          /\ initCalls' = [initCalls EXCEPT ![p] = [pc |-> "launching", seen |-> 0,
                                                    launching |-> launched + 1, got |-> 0]]
  /\ UNCHANGED <<browser, closer>>
  /\ UNCHANGED <<now, call, tokenSecret, attempts, http, requests, limiter, window,
                 inflight, captureVars, unswept, page, storageVars, socketVars>>

\* lines 48-56: the launch settles; a launch that fails sets browser to null
LaunchSettles(p) ==
  /\ initCalls[p].pc = "launching"
  /\ \E resolved \in BOOLEAN :
       IF resolved
       THEN /\ browser' = initCalls[p].launching
            /\ initCalls' = [initCalls EXCEPT ![p].pc = "returned",
                                              ![p].got = initCalls[p].launching]
       ELSE /\ browser' = 0
            /\ initCalls' = [initCalls EXCEPT ![p].pc = "threw"]
  /\ UNCHANGED <<closer, launches, launched>>
  /\ UNCHANGED <<now, call, tokenSecret, attempts, http, requests, limiter, window,
                 inflight, captureVars, unswept, page, storageVars, socketVars>>

\* the caller has the browser, or the error, and may call again
InitReturn(p) ==
  /\ initCalls[p].pc \in {"returned", "threw"}
  /\ initCalls' = [initCalls EXCEPT ![p] = NoInitCall]
  /\ UNCHANGED <<browser, closer, launches, launched>>
  /\ UNCHANGED <<now, call, tokenSecret, attempts, http, requests, limiter, window,
                 inflight, captureVars, unswept, page, storageVars, socketVars>>

\* closeBrowser, lines 65-68: a browser is there and browser.close() is awaited
CloseBrowser ==
  /\ closer = "idle"
  /\ browser # 0
  /\ closer' = "closing"
  /\ UNCHANGED <<browser, initCalls, launches, launched>>
  /\ UNCHANGED <<now, call, tokenSecret, attempts, http, requests, limiter, window,
                 inflight, captureVars, unswept, page, storageVars, socketVars>>

\* lines 68-74: the close resolves and browser is set to null, or it rejects
\* and the error is logged
CloseSettles ==
  /\ closer = "closing"
  /\ closer' = "idle"
  /\ \E resolved \in BOOLEAN :
       IF resolved
       THEN browser' = 0 /\ launches' = 0
       ELSE UNCHANGED <<browser, launches>>
  /\ UNCHANGED <<initCalls, launched>>
  /\ UNCHANGED <<now, call, tokenSecret, attempts, http, requests, limiter, window,
                 inflight, captureVars, unswept, page, storageVars, socketVars>>

NextBrowser ==
  \/ \E p \in InitCallers : InitializeBrowser(p)
  \/ \E p \in InitCallers : LaunchSettles(p)
  \/ \E p \in InitCallers : InitReturn(p)
  \/ CloseBrowser
  \/ CloseSettles

SpecBrowser == Init /\ [][NextBrowser]_vars

---------------------------------------------------------------------------
(* The page of a capture: captureScreenshot from browser.newPage() to the  *)
(* page.close() of its finally block, one action for each awaited step     *)

MaxNavigationAttempts == 3

\* a step threw: the finally block is next
Throws(pg, step) == [pg EXCEPT !.pc = "close", !.failed = step]

\* lines 153-173: page.goto has settled in the navigation loop
GotoSettlesFourAttempts(pg, ok) ==
  LET tried == [pg EXCEPT !.gotos = Append(@, IF ok THEN "ok" ELSE "failed")]
  IN  IF ok THEN [tried EXCEPT !.lastError = FALSE, !.pc = "waitForSelector"]
      ELSE IF pg.attempt < MaxNavigationAttempts + 1
      THEN [tried EXCEPT !.lastError = TRUE, !.pc = "sleep"]
      ELSE Throws([tried EXCEPT !.lastError = TRUE, !.attempt = @ + 1], "navigation")
GotoSettles(pg, ok) ==
  LET tried == [pg EXCEPT !.gotos = Append(@, IF ok THEN "ok" ELSE "failed")]
  IN  IF ok THEN [tried EXCEPT !.lastError = FALSE, !.pc = "waitForSelector"]
      ELSE IF pg.attempt < MaxNavigationAttempts
      THEN [tried EXCEPT !.lastError = TRUE, !.pc = "sleep"]
      ELSE Throws([tried EXCEPT !.lastError = TRUE, !.attempt = @ + 1], "navigation")

\* line 134: browser.newPage(); without a page the capture rejects
NewPage ==
  /\ page.pc = "none"
  /\ \E haToken \in BOOLEAN, ok \in BOOLEAN :
       page' = IF ok THEN [page EXCEPT !.pc = "setViewport", !.haToken = haToken]
               ELSE [page EXCEPT !.pc = "done", !.haToken = haToken,
                                 !.failed = "newPage", !.out = "rejected"]
  /\ UNCHANGED <<now, call, tokenSecret, attempts, http, requests, limiter, window,
                 inflight, captureVars, unswept, browserVars, storageVars,
                 socketVars>>

\* line 138
SetViewport ==
  /\ page.pc = "setViewport"
  /\ \E ok \in BOOLEAN :
       page' = IF ~ok THEN Throws(page, "setViewport")
               ELSE [page EXCEPT !.pc = IF page.haToken THEN "setExtraHTTPHeaders"
                                        ELSE "url"]
  /\ UNCHANGED <<now, call, tokenSecret, attempts, http, requests, limiter, window,
                 inflight, captureVars, unswept, browserVars, storageVars,
                 socketVars>>

\* lines 141-145
SetExtraHTTPHeaders ==
  /\ page.pc = "setExtraHTTPHeaders"
  /\ \E ok \in BOOLEAN :
       page' = IF ok THEN [page EXCEPT !.pc = "url"] ELSE Throws(page, "setExtraHTTPHeaders")
  /\ UNCHANGED <<now, call, tokenSecret, attempts, http, requests, limiter, window,
                 inflight, captureVars, unswept, browserVars, storageVars,
                 socketVars>>

\* lines 148-154: new URL(dashboardUrl, haUrl) throws on an invalid URL; the
\* loop starts with attempt = 1
BuildUrl ==
  /\ page.pc = "url"
  /\ \E valid \in BOOLEAN :
       page' = IF valid THEN [page EXCEPT !.pc = "goto", !.attempt = 1]
               ELSE Throws(page, "url")
  /\ UNCHANGED <<now, call, tokenSecret, attempts, http, requests, limiter, window,
                 inflight, captureVars, unswept, browserVars, storageVars,
                 socketVars>>

\* lines 155-164
Goto ==
  /\ page.pc = "goto"
  /\ \E ok \in BOOLEAN : page' = GotoSettles(page, ok)
  /\ UNCHANGED <<now, call, tokenSecret, attempts, http, requests, limiter, window,
                 inflight, captureVars, unswept, browserVars, storageVars,
                 socketVars>>

\* lines 165-167: the pause before the next attempt is over
Sleep ==
  /\ page.pc = "sleep"
  /\ page' = [page EXCEPT !.pc = "goto", !.attempt = @ + 1]
  /\ UNCHANGED <<now, call, tokenSecret, attempts, http, requests, limiter, window,
                 inflight, captureVars, unswept, browserVars, storageVars,
                 socketVars>>

\* lines 176-180: a missing home-assistant element is logged
WaitForSelector ==
  /\ page.pc = "waitForSelector"
  /\ \E found \in BOOLEAN :
       page' = [page EXCEPT !.pc = "waitForTimeout",
                            !.selector = IF found THEN "found" ELSE "missing"]
  /\ UNCHANGED <<now, call, tokenSecret, attempts, http, requests, limiter, window,
                 inflight, captureVars, unswept, browserVars, storageVars,
                 socketVars>>

\* line 183
WaitForTimeout ==
  /\ page.pc = "waitForTimeout"
  /\ \E ok \in BOOLEAN :
       page' = IF ok THEN [page EXCEPT !.pc = "screenshot"]
               ELSE Throws(page, "waitForTimeout")
  /\ UNCHANGED <<now, call, tokenSecret, attempts, http, requests, limiter, window,
                 inflight, captureVars, unswept, browserVars, storageVars,
                 socketVars>>

\* lines 188-198
Screenshot ==
  /\ page.pc = "screenshot"
  /\ \E ok \in BOOLEAN :
       page' = IF ok THEN [page EXCEPT !.pc = "close", !.shot = TRUE]
               ELSE Throws(page, "screenshot")
  /\ UNCHANGED <<now, call, tokenSecret, attempts, http, requests, limiter, window,
                 inflight, captureVars, unswept, browserVars, storageVars,
                 socketVars>>

\* lines 199-211: page.close() in the finally block, a failure of it logged;
\* then the buffer is returned or the error thrown again
ClosePage ==
  /\ page.pc = "close"
  /\ \E ok \in BOOLEAN :
       page' = [page EXCEPT !.pc = "done", !.closeCalls = @ + 1, !.closed = ok,
                            !.out = IF page.failed = "" THEN "resolved" ELSE "rejected"]
  /\ UNCHANGED <<now, call, tokenSecret, attempts, http, requests, limiter, window,
                 inflight, captureVars, unswept, browserVars, storageVars,
                 socketVars>>

\* the next capture
NextCaptureCall ==
  /\ page.pc = "done"
  /\ page.capture < MaxPageCaptures
  /\ page' = [NoPage EXCEPT !.capture = page.capture + 1]
  /\ UNCHANGED <<now, call, tokenSecret, attempts, http, requests, limiter, window,
                 inflight, captureVars, unswept, browserVars, storageVars,
                 socketVars>>

NextPage ==
  \/ NewPage
  \/ SetViewport
  \/ SetExtraHTTPHeaders
  \/ BuildUrl
  \/ Goto
  \/ Sleep
  \/ WaitForSelector
  \/ WaitForTimeout
  \/ Screenshot
  \/ ClosePage
  \/ NextCaptureCall

SpecPage == Init /\ [][NextPage]_vars

---------------------------------------------------------------------------
(* The screenshot file of a device.  saveScreenshot writes the image to    *)
(* <device>.png.tmp with fs.writeFile and renames it to <device>.png;       *)
(* getScreenshot reads <device>.png.  disk maps the two paths to a file (0  *)
(* for none), inodes maps a file to its contents: writeFile opens the path  *)
(* truncating the file it names, writes the buffer chunk by chunk from      *)
(* offset 0 through its descriptor, and rename replaces the target.         *)

Savers == 1..MaxSaves
Readers == 1..MaxReads

\* chunk c of the image saver w was given; a hole reads as zeros
Chunk(w, c) == <<w, c>>
Hole == <<0, 0>>
Image(w) == [c \in 1..MaxChunks |-> Chunk(w, c)]

\* the contents after a write of chunk at offset c (counted from 1)
WriteAt(contents, c, chunk) ==
  [i \in 1..(IF Len(contents) > c THEN Len(contents) ELSE c) |->
     IF i = c THEN chunk ELSE IF i <= Len(contents) THEN contents[i] ELSE Hole]

\* a file that no path names and no descriptor holds
FreeInode ==
  CHOOSE i \in 1..MaxSaves :
    /\ disk.tmp # i /\ disk.final # i
    /\ \A w \in Savers : saves[w].fd # i

\* lines 286-297: writeFile opens the temporary path with flag "w": the file
\* there is truncated, or one is created
SaveOpen(w) ==
  /\ saves[w].pc = "idle"
  /\ LET f == IF disk.tmp # 0 THEN disk.tmp ELSE FreeInode
     IN  /\ disk' = [disk EXCEPT !.tmp = f]
         /\ inodes' = [inodes EXCEPT ![f] = <<>>]
         /\ saves' = [saves EXCEPT ![w] = [pc |-> "writing", fd |-> f, written |-> 0]]
  /\ UNCHANGED reads
  /\ UNCHANGED <<now, call, tokenSecret, attempts, http, requests, limiter, window,
                 inflight, captureVars, unswept, browserVars, page, socketVars>>

\* line 297: writeFile writes the next chunk of the buffer
SaveWrite(w) ==
  /\ saves[w].pc = "writing"
  /\ LET c == saves[w].written + 1
     IN  /\ inodes' = [inodes EXCEPT ![saves[w].fd] = WriteAt(@, c, Chunk(w, c))]
         /\ saves' = [saves EXCEPT ![w].written = c,
                                   ![w].pc = IF c = MaxChunks THEN "rename" ELSE "writing"]
  /\ UNCHANGED <<disk, reads>>
  /\ UNCHANGED <<now, call, tokenSecret, attempts, http, requests, limiter, window,
                 inflight, captureVars, unswept, browserVars, page, socketVars>>

\* lines 298-316: rename of the temporary path; without a file there it
\* fails and saveScreenshot throws
SaveRename(w) ==
  /\ saves[w].pc = "rename"
  /\ IF disk.tmp = 0
     THEN /\ saves' = [saves EXCEPT ![w].pc = "threw", ![w].fd = 0]
          /\ UNCHANGED disk
     ELSE /\ saves' = [saves EXCEPT ![w].pc = "saved", ![w].fd = 0]
          /\ disk' = [tmp |-> 0, final |-> disk.tmp]
  /\ UNCHANGED <<inodes, reads>>
  /\ UNCHANGED <<now, call, tokenSecret, attempts, http, requests, limiter, window,
                 inflight, captureVars, unswept, browserVars, page, socketVars>>

\* lines 324-338: existsSync; null without a file, else stat is awaited
GetScreenshot(r) ==
  /\ reads[r].pc = "idle"
  /\ reads' = [reads EXCEPT ![r] = IF disk.final = 0
                                     THEN [pc |-> "done", found |-> FALSE, data |-> <<>>]
                                     ELSE [pc |-> "reading", found |-> FALSE, data |-> <<>>]]
  /\ UNCHANGED <<disk, inodes, saves>>
  /\ UNCHANGED <<now, call, tokenSecret, attempts, http, requests, limiter, window,
                 inflight, captureVars, unswept, browserVars, page, socketVars>>

\* lines 339-351: readFile returns the contents of the file at the path,
\* read here in one piece
ReadFile(r) ==
  /\ reads[r].pc = "reading"
  /\ reads' = [reads EXCEPT ![r] = [pc |-> "done", found |-> TRUE,
                                     data |-> inodes[disk.final]]]
  /\ UNCHANGED <<disk, inodes, saves>>
  /\ UNCHANGED <<now, call, tokenSecret, attempts, http, requests, limiter, window,
                 inflight, captureVars, unswept, browserVars, page, socketVars>>

NextStorage ==
  \/ \E w \in Savers : SaveOpen(w)
  \/ \E w \in Savers : SaveWrite(w)
  \/ \E w \in Savers : SaveRename(w)
  \/ \E r \in Readers : GetScreenshot(r)
  \/ \E r \in Readers : ReadFile(r)

SpecStorage == Init /\ [][NextStorage]_vars

---------------------------------------------------------------------------
(* The WebSocket to Home Assistant: connectWebSocket makes a socket whose  *)
(* "open" handler resets reconnectAttempts and whose "close" handler sets   *)
(* ws to null and calls attemptReconnect, which sets a timer for the next   *)
(* connectWebSocket.  A connection that fails emits "error" and "close".    *)

MAX_RECONNECT_ATTEMPTS == 10

\* attemptReconnect with reconnectAttempts = n: the counter after it and
\* whether a timer was set
AttemptReconnectInclusive(n) ==
  IF n > MAX_RECONNECT_ATTEMPTS THEN [reconnectAttempts |-> n, scheduled |-> FALSE]
  ELSE [reconnectAttempts |-> n + 1, scheduled |-> TRUE]
AttemptReconnect(n) ==
  IF n >= MAX_RECONNECT_ATTEMPTS THEN [reconnectAttempts |-> n, scheduled |-> FALSE]
  ELSE [reconnectAttempts |-> n + 1, scheduled |-> TRUE]

\* connectWebSocket called by the service, lines 506-516
ConnectWebSocket ==
  /\ socket = "none"
  /\ ~timer
  /\ socket' = "connecting"
  /\ UNCHANGED <<reconnectAttempts, timer, sinceOpen, opens>>
  /\ UNCHANGED <<now, call, tokenSecret, attempts, http, requests, limiter, window,
                 inflight, captureVars, unswept, browserVars, page, storageVars>>

\* the "open" handler, lines 518-529
SocketOpens ==
  /\ socket = "connecting"
  /\ opens < MaxOpens
  /\ socket' = "open"
  /\ reconnectAttempts' = 0
  /\ sinceOpen' = 0
  /\ opens' = opens + 1
  /\ UNCHANGED timer
  /\ UNCHANGED <<now, call, tokenSecret, attempts, http, requests, limiter, window,
                 inflight, captureVars, unswept, browserVars, page, storageVars>>

\* the "close" handler, lines 540-544, of a connection that failed or of an
\* open one that is lost
SocketCloses ==
  /\ socket \in {"connecting", "open"}
  /\ LET next == AttemptReconnect(reconnectAttempts)
     IN  /\ socket' = "none"
         /\ reconnectAttempts' = next.reconnectAttempts
         /\ timer' = next.scheduled
  /\ UNCHANGED <<sinceOpen, opens>>
  /\ UNCHANGED <<now, call, tokenSecret, attempts, http, requests, limiter, window,
                 inflight, captureVars, unswept, browserVars, page, storageVars>>

\* the timer of attemptReconnect, lines 759-763, calls connectWebSocket
ReconnectTimer ==
  /\ timer
  /\ timer' = FALSE
  /\ socket' = "connecting"
  /\ sinceOpen' = sinceOpen + 1
  /\ UNCHANGED <<reconnectAttempts, opens>>
  /\ UNCHANGED <<now, call, tokenSecret, attempts, http, requests, limiter, window,
                 inflight, captureVars, unswept, browserVars, page, storageVars>>

NextSocket == ConnectWebSocket \/ SocketOpens \/ SocketCloses \/ ReconnectTimer

SpecSocket == Init /\ [][NextSocket]_vars

---------------------------------------------------------------------------
(* Properties of validateToken, read off the last call *)

Called == call.fn = "validateToken"

\* the token has the three segments of the wire format
ThreeParts(token) ==
  token.k = "string" /\ Len(token.parts) = 3 /\ token.parts[1] = Prefix

\* the payload object a three-segment token carries, if it carries one
PayloadOf(token) == token.parts[2].chars.json
HasObject(token) ==
  ThreeParts(token) /\ token.parts[2].chars.lit = "" /\ PayloadOf(token).jk = "object"

\* the signature segment is the unchanged digest, under the key k, of the
\* payload segment as it stands in the token
SignedWith(token, k) ==
  /\ ThreeParts(token)
  /\ token.parts[3].kind = "hex"
  /\ token.parts[3].edit = "none"
  /\ token.parts[3].key = k
  /\ token.parts[3].chars = token.parts[2].chars

IsTimestamp(v) == v.k = "string" /\ v.s = "iso8601"

\* the call has a string secret that signed the token, and the device id
\* the payload names
GoodCall ==
  /\ Called
  /\ HasObject(call.token)
  /\ call.secret.k = "string" /\ call.secret.s # ""
  /\ SignedWith(call.token, call.secret.s)
  /\ call.deviceId.k = "string" /\ call.deviceId.s # ""
  /\ PayloadOf(call.token).device_id = call.deviceId

\* C2: a token whose signature segment is the digest with one character
\* changed is rejected, whatever the device id and the secret.
SignatureEdited(token) ==
  \/ token \in Tokens4
  \/ ThreeParts(token) /\ token.parts[3].kind = "hex" /\ token.parts[3].edit # "none"

C2_TamperDetection == Called /\ SignatureEdited(call.token) => ~call.out.ok

\* a call that would have been accepted with the digest unchanged is
\* rejected for its signature
C2_Witness ==
  /\ Called
  /\ HasObject(call.token)
  /\ call.token.parts[3].kind = "hex"
  /\ call.token.parts[3].edit = "case"
  /\ call.token.parts[3].key = call.secret.s
  /\ call.token.parts[3].chars = call.token.parts[2].chars
  /\ PayloadOf(call.token).device_id = call.deviceId
  /\ PayloadOf(call.token).expires_at = Iso(LastInstant)
  /\ call.out.reason = "signature invalid"

\* C3: a token whose signature segment is the digest of another payload
\* segment than the one it carries is rejected, also when the two segments
\* decode to the same payload.
SignatureOfOtherSegment(token) ==
  /\ ThreeParts(token)
  /\ token.parts[3].kind = "hex"
  /\ token.parts[3].edit = "none"
  /\ token.parts[3].chars # token.parts[2].chars

C3_PayloadIntegrity == Called /\ SignatureOfOtherSegment(call.token) => ~call.out.ok

\* the carried segment is another spelling of the signed payload
C3_Witness ==
  /\ Called
  /\ SignatureOfOtherSegment(call.token)
  /\ HasObject(call.token)
  /\ call.token.parts[3].chars.json = PayloadOf(call.token)
  /\ call.token.parts[3].key = call.secret.s
  /\ PayloadOf(call.token).device_id = call.deviceId
  /\ call.at < LastInstant
  /\ call.out.reason = "signature invalid"

\* C4: a token signed with one secret is rejected under every other secret.
C4_WrongSecret ==
  Called /\ (\E k \in SignKeys : SignedWith(call.token, k) /\ call.secret # Str(k))
    => ~call.out.ok

C4_Witness ==
  /\ Called
  /\ HasObject(call.token)
  /\ SignedWith(call.token, "s1")
  /\ call.secret = Str("s2")
  /\ PayloadOf(call.token).device_id = call.deviceId
  /\ PayloadOf(call.token).expires_at = Iso(LastInstant)
  /\ call.at < LastInstant
  /\ call.out.reason = "signature invalid"

\* C5: the token made for a payload with issued_at <= now < expires_at is
\* accepted with the payload's device id and the signing secret, and the
\* result carries the payload's three fields.
RoundTripCase ==
  /\ GoodCall
  /\ \E p \in PayloadValues : call.token = CreateToken(p, call.secret.s)
  /\ IsTimestamp(PayloadOf(call.token).issued_at)
  /\ IsTimestamp(PayloadOf(call.token).expires_at)
  /\ PayloadOf(call.token).issued_at.n <= call.at
  /\ call.at < PayloadOf(call.token).expires_at.n

C5_RoundTrip ==
  RoundTripCase =>
    /\ call.out.ok
    /\ call.out.device_id = PayloadOf(call.token).device_id
    /\ call.out.issued_at = PayloadOf(call.token).issued_at
    /\ call.out.expires_at = PayloadOf(call.token).expires_at

C5_Witness == RoundTripCase /\ call.out.ok /\ call.at > TickMs

\* C6: with a valid signature and the matching device id, a token is
\* rejected when now is later than expires_at and accepted when expires_at
\* is later than now.
C6_Expiry ==
  GoodCall /\ IsTimestamp(PayloadOf(call.token).expires_at) =>
    /\ call.at > PayloadOf(call.token).expires_at.n => ~call.out.ok
    /\ call.at < PayloadOf(call.token).expires_at.n => call.out.ok

C6_Witness ==
  /\ GoodCall
  /\ IsTimestamp(PayloadOf(call.token).expires_at)
  /\ call.at = PayloadOf(call.token).expires_at.n + TickMs
  /\ call.out.reason = "expired"

\* C7: a token is rejected whenever now >= expires_at, the instant
\* now = expires_at included.
C7_ExpiryBoundary ==
  Called /\ HasObject(call.token) /\ IsTimestamp(PayloadOf(call.token).expires_at)
         /\ call.at >= PayloadOf(call.token).expires_at.n
    => ~call.out.ok

\* C8: a token whose payload lacks expires_at, or has one that is no
\* timestamp, is rejected even with the matching device id and a valid
\* signature.
C8_PartialPayloadRejected ==
  Called /\ HasObject(call.token)
         /\ PayloadOf(call.token).expires_at \in {Undefined, Str("not a date")}
    => ~call.out.ok

\* C9: no call propagates an exception: each returns a result or null.
C9_NeverThrows == Called => ~call.out.threw

\* an exception was raised inside and came out as null: a token that is
\* not a string, a payload that is null, a signature of another length
C9_Witness ==
  /\ Called
  /\ ValidateTokenTry(call.token, call.deviceId, call.secret, call.at).threw
  /\ ThreeParts(call.token)
  /\ call.token.parts[3] = Lit("invalidsignature", 16)
  /\ ~call.out.ok /\ ~call.out.threw

\* C10: a call with an empty or absent token, device id or secret returns
\* null; with the empty secret every token is denied.
Absent(v) == v \in {Undefined, Null, Str("")}

C10_MissingParameters ==
  Called /\ (TokFalsy(call.token) \/ Absent(call.deviceId) \/ Absent(call.secret))
    => ~call.out.ok /\ ~call.out.threw

\* the empty secret, and a token signed with the empty key
C10_Witness ==
  /\ Called
  /\ call.secret = Str("")
  /\ HasObject(call.token)
  /\ SignedWith(call.token, "")
  /\ PayloadOf(call.token).device_id = call.deviceId
  /\ PayloadOf(call.token).expires_at = Iso(LastInstant)
  /\ call.out.reason = "missing parameters"

---------------------------------------------------------------------------
(* Properties of the screenshot endpoint, read off the last request *)

\* a request for one device carrying a token whose payload names another
WrongDeviceRequest ==
  /\ http.busy
  /\ http.auth = "bearer"
  /\ HasObject(http.token)
  /\ PayloadOf(http.token).device_id # Str(http.deviceId)

\* C1 as stated: a token for device A is null for every other device id B,
\* and the request for B that carries it is answered 401.
C1_AnsweredUnauthorized ==
  WrongDeviceRequest =>
    /\ ~ValidateToken(http.token, Str(http.deviceId), tokenSecret, now).ok
    /\ http.status = 401

\* C1: a token for device A is null for every other device id B, and the
\* request for B that carries it is never served: it is answered 401 when
\* the rate limiter lets it through and 429 when it does not.
C1_DeviceBinding ==
  WrongDeviceRequest =>
    /\ ~ValidateToken(http.token, Str(http.deviceId), tokenSecret, now).ok
    /\ http.allowed => http.status = 401 /\ http.info.reason # ""
    /\ ~http.allowed => http.status = 429

\* the token is signed with the server's secret and unexpired, and is
\* turned down for the device alone
C1_Witness ==
  /\ WrongDeviceRequest
  /\ SignedWith(http.token, tokenSecret.s)
  /\ PayloadOf(http.token).expires_at = Iso(LastInstant)
  /\ now < LastInstant
  /\ http.validated
  /\ http.info.reason = "device_id mismatch"
  /\ http.status = 401

\* the token of the request, checked on its own against the device of the
\* path, the server's secret and the clock
RequestTokenValid ==
  /\ http.auth = "bearer"
  /\ ValidateToken(http.token, Str(http.deviceId), tokenSecret, now).ok

\* C11: the limiter is consulted before the token is examined: a request
\* that isAllowed turns down is answered 429, validateToken is not invoked
\* for it and no HMAC is computed.
C11_LimiterBeforeCrypto ==
  [][\A d \in Devices :
       (~http.busy /\ http'.busy /\ http'.deviceId = d
          /\ ~IsAllowed(attempts, d, now, DefaultMaxAttempts, DefaultWindowMs).allowed)
       => /\ http'.status = 429
          /\ http'.error = "Too many requests"
          /\ ~http'.validated
          /\ ~http'.info.hmac]_vars

\* a request with a token that would have been accepted is turned down by
\* the limiter
C11_Witness ==
  /\ http.busy
  /\ RequestTokenValid
  /\ ~http.allowed
  /\ ~http.validated
  /\ http.status = 429

\* C14: a device making up to 60 requests within 60 s with a valid token
\* is never answered 429.
DocumentedMaxAttempts == 60

C14_SixtyPerMinute ==
  http.busy /\ RequestTokenValid /\ requests[http.deviceId] <= DocumentedMaxAttempts
    => http.status # 429

\* C15: every request for a device consumes one attempt of the device's
\* key, whatever its Authorization header; requests 1 to 10 of a window are
\* not answered 429, the 11th and later are.
Min(a, b) == IF a < b THEN a ELSE b

C15_EveryRequestCounts ==
  /\ \A d \in Devices :
       /\ requests[d] = 0 => attempts[d] = NoEntry
       /\ requests[d] > 0 =>
            /\ attempts[d].has
            /\ attempts[d].count = Min(requests[d], DefaultMaxAttempts)
  /\ http.busy =>
       /\ requests[http.deviceId] <= DefaultMaxAttempts => http.status # 429
       /\ requests[http.deviceId] > DefaultMaxAttempts => http.status = 429

\* the 11th request of the window carries a valid token and is answered 429
C15_Witness ==
  /\ http.busy
  /\ RequestTokenValid
  /\ requests[http.deviceId] = DefaultMaxAttempts + 1
  /\ http.status = 429

\* C16: a screenshot is served for device D only if, in the same request,
\* the limiter allowed D and validateToken returned a result; a token that
\* only decodes is not served.
C16_AdmissionRequiresVerification ==
  /\ http.busy /\ http.status = 200 =>
       /\ requests[http.deviceId] <= DefaultMaxAttempts
       /\ http.allowed
       /\ http.validated
       /\ RequestTokenValid
       /\ http.info = ValidateToken(http.token, Str(http.deviceId), tokenSecret, now)
  /\ http.busy /\ http.auth = "bearer" /\ ~RequestTokenValid => http.status \in {401, 429}

C16_Witness ==
  /\ http.busy
  /\ http.status = 200
  /\ http.allowed
  /\ http.info.ok
  /\ http.info.device_id = Str(http.deviceId)

\* C17: a request that passed the limiter and carries a Bearer token that
\* fails validation gets one and the same answer, whatever the failure:
\* status 401, the body "Invalid or expired token", no rotation header.
ValidationFailed ==
  http.busy /\ http.allowed /\ http.auth = "bearer" /\ ~RequestTokenValid

C17_NoValidationOracle ==
  ValidationFailed =>
    /\ http.status = 401
    /\ http.error = "Invalid or expired token"
    /\ ~http.rotate

C17_Witness ==
  /\ ValidationFailed
  /\ http.info.reason = "expired"
  /\ http.status = 401
  /\ http.error = "Invalid or expired token"

\* C20: the response carries X-Token-Rotate exactly when the token was
\* validated and shouldRotateToken of the result is true, with 200 and 404
\* alike; the answers 401 and 429 never carry it.
C20_RotationHeader ==
  http.busy =>
    /\ http.rotate <=>
         /\ http.allowed
         /\ RequestTokenValid
         /\ ShouldRotateToken(
              ValidateToken(http.token, Str(http.deviceId), tokenSecret, now), now)
    /\ http.status \in {401, 429} => ~http.rotate

\* the header goes out with a 404
C20_Witness ==
  /\ http.busy
  /\ http.status = 404
  /\ http.info.ok
  /\ http.rotate

---------------------------------------------------------------------------
(* Properties of the order of validateToken's checks *)

\* what each check of the call would find, read off the arguments alone
ArgsFail == TokFalsy(call.token) \/ Absent(call.deviceId) \/ Absent(call.secret)
FormatFail == ~ThreeParts(call.token)
DecodeFail ==
  ~(/\ call.token.parts[2].kind = "plain"
    /\ call.token.parts[2].chars.lit = ""
    /\ PayloadOf(call.token).jk # "garbage")
DeviceFail ==
  PayloadOf(call.token).jk = "null" \/ PayloadOf(call.token).device_id # call.deviceId
SignatureFail ==
  ~(call.secret.k = "string" /\ SignedWith(call.token, call.secret.s))
ExpiryFail ==
  LET e == PayloadOf(call.token).expires_at
  IN  \/ IsTimestamp(e) /\ call.at > e.n
      \/ e = Null /\ call.at > 0

\* the reason the earliest failing check logs, "" when none fails; a check
\* that fails by an exception is logged by the catch
EarliestFailure ==
  IF ArgsFail THEN "missing parameters"
  ELSE IF FormatFail
  THEN IF call.token.k = "string" THEN "invalid format" ELSE "Token validation error"
  ELSE IF DecodeFail THEN "payload decode failed"
  ELSE IF DeviceFail
  THEN IF PayloadOf(call.token).jk = "null" THEN "Token validation error"
       ELSE "device_id mismatch"
  ELSE IF SignatureFail
  THEN IF call.secret.k # "string" \/ call.token.parts[3].len # HexLen
       THEN "Token validation error" ELSE "signature invalid"
  ELSE IF ExpiryFail THEN "expired"
  ELSE ""

\* C18: the checks run in the order arguments, format, decode, device_id,
\* signature, expiry and stop at the first that fails: the logged reason is
\* that of the earliest failing check, and the HMAC is computed only for a
\* token that passed the format, decode and device_id checks.
C18_CheckOrder ==
  Called =>
    /\ call.out.reason = EarliestFailure
    /\ call.out.ok <=> EarliestFailure = ""
    /\ call.out.hmac => ~ArgsFail /\ ~FormatFail /\ ~DecodeFail /\ ~DeviceFail

\* the device, the signature and the expiry would all fail; the device is
\* reported and no HMAC computed
C18_Witness ==
  /\ Called
  /\ ~ArgsFail /\ ~FormatFail /\ ~DecodeFail
  /\ DeviceFail /\ SignatureFail /\ ExpiryFail
  /\ call.out.reason = "device_id mismatch"
  /\ ~call.out.hmac

---------------------------------------------------------------------------
(* Properties of shouldRotateToken, read off the last call *)

RotateCalled == call.fn = "shouldRotateToken"

Remaining(h) ==
  IsTimestamp(call.info.expires_at) /\ call.info.expires_at.n - call.at = h

\* C19: shouldRotateToken is true exactly for a null result and for one
\* whose expires_at is less than 6 hours after now; 5 hours remaining give
\* true, 23 hours and exactly 6 hours give false.
C19_RotationThreshold ==
  RotateCalled =>
    /\ call.rotate <=>
         \/ ~call.info.ok
         \/ /\ IsTimestamp(call.info.expires_at)
            /\ call.info.expires_at.n - call.at < 6 * HourMs
    /\ call.info.ok /\ Remaining(5 * HourMs) => call.rotate
    /\ call.info.ok /\ Remaining(23 * HourMs) => ~call.rotate
    /\ call.info.ok /\ Remaining(6 * HourMs) => ~call.rotate

\* exactly 6 hours remain
C19_Witness ==
  /\ RotateCalled
  /\ call.info.ok
  /\ Remaining(6 * HourMs)
  /\ call.at > 0
  /\ ~call.rotate

---------------------------------------------------------------------------
(* Properties of the rate limiter *)

\* the isAllowed call the step makes for key k
IsAllowedStep(k) ==
  call.fn = "none" /\ call'.fn = "isAllowed" /\ call'.deviceId = Str(k)

InWindow(k) == window[k].open /\ now - window[k].start <= limiter.windowMs

\* C12: from no entry for a key, the first N isAllowed calls made while
\* now - window_start <= W return true, every further call in the window
\* returns false, and the first call with now - window_start > W returns
\* true and starts a window with count 1; at most N calls are allowed in a
\* window.
C12_Saturation ==
  [][\A k \in Devices :
       IsAllowedStep(k) =>
         /\ InWindow(k) /\ window[k].calls < limiter.maxAttempts =>
              /\ call'.allowed
              /\ attempts'[k] = Entry(window[k].calls + 1, window[k].start)
         /\ InWindow(k) /\ window[k].calls >= limiter.maxAttempts =>
              /\ ~call'.allowed
              /\ attempts'[k] = attempts[k]
         /\ ~InWindow(k) =>
              /\ call'.allowed
              /\ attempts'[k] = Entry(1, now)
         /\ window'[k].granted <= limiter.maxAttempts]_vars

\* a call at the last instant of a full window is refused
C12_Witness ==
  /\ call.fn = "isAllowed"
  /\ ~call.allowed
  /\ \E k \in Devices :
       /\ call.deviceId = Str(k)
       /\ window[k].calls > limiter.maxAttempts
       /\ window[k].granted = limiter.maxAttempts
       /\ limiter.maxAttempts > 1
       /\ call.at = window[k].start + limiter.windowMs

\* the call the step makes on key x
KeyStep(x) ==
  call.fn = "none" /\ call'.fn \in {"isAllowed", "reset"} /\ call'.deviceId = Str(x)

\* C13: isAllowed(X) and reset(X) change the entry of X alone: for every
\* other key Y the entry, and the answers isAllowed(Y) and
\* getRemainingAttempts(Y) would give, are what they were.
C13_IndependentKeys ==
  [][\A x \in Devices, y \in Devices :
       KeyStep(x) /\ y # x =>
         /\ attempts'[y] = attempts[y]
         /\ IsAllowed(attempts', y, now, limiter.maxAttempts, limiter.windowMs).allowed
              = IsAllowed(attempts, y, now, limiter.maxAttempts, limiter.windowMs).allowed
         /\ GetRemainingAttempts(attempts', y, now, limiter.maxAttempts, limiter.windowMs)
              = GetRemainingAttempts(attempts, y, now, limiter.maxAttempts,
                                     limiter.windowMs)]_vars

\* one key is exhausted and the other, part-used in the same window, keeps
\* its count
C13_Witness ==
  /\ call.fn = "isAllowed"
  /\ call.deviceId = Str("devA")
  /\ ~call.allowed
  /\ attempts["devB"] = Entry(1, attempts["devA"].firstTime)
  /\ limiter.maxAttempts > 1
  /\ GetRemainingAttempts(attempts, "devB", now, limiter.maxAttempts, limiter.windowMs)
       = limiter.maxAttempts - 1

---------------------------------------------------------------------------
(* Properties of the capture queue *)

\* the captures that hold a slot: past waitForQueueSlot, not yet through
\* processQueue
Holders == {i \in CaptureIds : captures[i] = "running"}

\* C28: at every moment at most MAX_CONCURRENT captures hold a slot.
C28_ConcurrencyLimit == Cardinality(Holders) <= MAX_CONCURRENT

\* the limit is met after a slot was handed on, with a capture waiting
C28_Witness ==
  /\ Cardinality(Holders) = MAX_CONCURRENT
  /\ activeCaptures > MAX_CONCURRENT
  /\ Len(captureQueue) > 0

\* C29: every capture that was requested eventually completes, resolved or
\* rejected, provided every running capture eventually finishes.
C29_CaptureLiveness ==
  \A i \in CaptureIds :
    (captures[i] \in {"queued", "running"}) ~> (captures[i] \in {"resolved", "rejected"})

\* C30: activeCaptures equals the number of captures that hold a slot, and
\* is 0 when none is running and the queue is empty.
C30_SlotAccounting ==
  /\ activeCaptures = Cardinality(Holders)
  /\ Holders = {} /\ captureQueue = <<>> => activeCaptures = 0

---------------------------------------------------------------------------
(* Properties of getTokenInfo, read off the last call *)

InfoCalled == call.fn = "getTokenInfo"

\* the payload segment is base64 of a text JSON.parse accepts
Decodable(token) ==
  /\ ThreeParts(token)
  /\ token.parts[2].kind = "plain"
  /\ token.parts[2].chars.lit = ""
  /\ PayloadOf(token).jk # "garbage"

ReturnsPayload ==
  /\ call.out.ok
  /\ call.out.device_id = PayloadOf(call.token).device_id
  /\ call.out.issued_at = PayloadOf(call.token).issued_at
  /\ call.out.expires_at = PayloadOf(call.token).expires_at

\* C27 as stated: every token of 3 segments with the prefix and a decodable
\* payload gets the payload's three fields, every other token null, and no
\* call throws.
C27_DecodesEveryPayload ==
  InfoCalled =>
    /\ ~call.out.threw
    /\ Decodable(call.token) => ReturnsPayload
    /\ ~Decodable(call.token) => ~call.out.ok

\* C27: a token of 3 segments with the prefix and a payload that decodes to
\* a JSON value other than null gets the payload's three fields, whatever
\* its signature and expiry; a payload that decodes to null, and every
\* other token, gets null; no call throws.
C27_DecodesWithoutVerifying ==
  InfoCalled =>
    /\ ~call.out.threw
    /\ Decodable(call.token) /\ PayloadOf(call.token).jk # "null" => ReturnsPayload
    /\ Decodable(call.token) /\ PayloadOf(call.token).jk = "null" => ~call.out.ok
    /\ ~Decodable(call.token) => ~call.out.ok

\* the fields of an expired payload under a signature that is no digest
C27_Witness ==
  /\ InfoCalled
  /\ ReturnsPayload
  /\ HasObject(call.token)
  /\ call.token.parts[3].kind = "plain"
  /\ IsTimestamp(call.out.expires_at)
  /\ call.at > call.out.expires_at.n

---------------------------------------------------------------------------
(* Properties of the limiter over the calls of less than a window length *)

RECURSIVE CountAllowed(_)
CountAllowed(recent) ==
  IF recent = <<>> THEN 0
  ELSE (IF Head(recent).allowed THEN 1 ELSE 0) + CountAllowed(Tail(recent))

\* maxAttempts calls at one instant and then maxAttempts more at a later
\* one, less than a window length after, the first of which opens a window
TwoBursts(w) ==
  LET n == limiter.maxAttempts
  IN  /\ Len(w.recent) = 2 * n
      /\ w.recent[1].at = w.recent[n].at
      /\ w.recent[n + 1].at = w.recent[2 * n].at
      /\ w.recent[n].at < w.recent[n + 1].at
      /\ w.start = w.recent[n + 1].at

\* C21 as stated: maxAttempts calls just before a window boundary and
\* maxAttempts more just after it, 2 x maxAttempts calls within less than a
\* window length, are all allowed.
C21_TwiceMaxBurst ==
  \A k \in Devices :
    TwoBursts(window[k]) => \A i \in 1..Len(window[k].recent) : window[k].recent[i].allowed

\* C21: the isAllowed calls for one key that are allowed within a span
\* shorter than the window number at most 2 x maxAttempts - 1: the call that
\* opens a window is counted in it, so maxAttempts - 1 calls at the end of a
\* window and maxAttempts at the start of the next are the largest burst.
C21_BoundaryBurst ==
  \A k \in Devices : CountAllowed(window[k].recent) <= 2 * limiter.maxAttempts - 1

\* the largest burst: more than maxAttempts calls allowed across a boundary
C21_Witness ==
  \E k \in Devices :
    /\ limiter.maxAttempts > 1
    /\ CountAllowed(window[k].recent) = 2 * limiter.maxAttempts - 1
    /\ window[k].recent[1].at < window[k].start
    /\ window[k].granted = limiter.maxAttempts

---------------------------------------------------------------------------
(* Properties of getRemainingAttempts and reset *)

RemainingStep(k) ==
  call.fn = "none" /\ call'.fn = "getRemainingAttempts" /\ call'.deviceId = Str(k)

\* C24: getRemainingAttempts(key) is maxAttempts when the key has no entry
\* or its window is over, and otherwise maxAttempts less the calls allowed
\* in the window; it is never negative and leaves the entries as they are.
C24_RemainingAttempts ==
  [][\A k \in Devices :
       RemainingStep(k) =>
         /\ attempts' = attempts
         /\ call'.remaining >= 0
         /\ call'.remaining =
              IF ~attempts[k].has \/ now - window[k].start > limiter.windowMs
              THEN limiter.maxAttempts
              ELSE limiter.maxAttempts - window[k].granted]_vars

\* nothing remains of a window in which calls were refused
C24_Witness ==
  /\ call.fn = "getRemainingAttempts"
  /\ call.remaining = 0
  /\ \E k \in Devices :
       /\ call.deviceId = Str(k)
       /\ window[k].calls > limiter.maxAttempts
       /\ call.at - window[k].start <= limiter.windowMs

ResetStep(k) == call.fn = "none" /\ call'.fn = "reset" /\ call'.deviceId = Str(k)

\* C25: after reset(key) the key has no entry, whatever its count was: an
\* isAllowed(key) then returns true and starts a window with count 1, and
\* getRemainingAttempts(key) returns maxAttempts; reset of a key without an
\* entry changes nothing.
C25_Reset ==
  [][\A k \in Devices :
       /\ ResetStep(k) =>
            /\ attempts'[k] = NoEntry
            /\ ~attempts[k].has => attempts' = attempts
            /\ GetRemainingAttempts(attempts', k, now, limiter.maxAttempts,
                                    limiter.windowMs) = limiter.maxAttempts
            /\ IsAllowed(attempts', k, now, limiter.maxAttempts,
                         limiter.windowMs).allowed
       /\ IsAllowedStep(k) /\ ~window[k].open =>
            /\ call'.allowed
            /\ attempts'[k] = Entry(1, now)]_vars

\* an exhausted key is reset within its window
C25_Witness ==
  /\ call.fn = "reset"
  /\ call.before.has
  /\ call.before.count = limiter.maxAttempts
  /\ call.at - call.before.firstTime <= limiter.windowMs
  /\ \E k \in Devices : call.deviceId = Str(k) /\ attempts[k] = NoEntry

---------------------------------------------------------------------------
(* Properties of the limiter under concurrently handled requests *)

Awaiting(k) == {r \in 1..MaxInFlight : inflight[r].pc = "awaiting" /\ inflight[r].deviceId = k}

\* C22: under every interleaving of the requests for one key each isAllowed
\* call sees the entry the call before left: the entry counts every call
\* allowed in the window, and these never exceed maxAttempts.
C22_PerKeyAtomicity ==
  \A k \in Devices :
    /\ window[k].granted <= limiter.maxAttempts
    /\ attempts[k].has =>
         /\ window[k].open
         /\ attempts[k].firstTime = window[k].start
         /\ attempts[k].count = window[k].granted

\* two requests for one key are in flight and a third was refused
C22_Witness ==
  \E k \in Devices :
    /\ Cardinality(Awaiting(k)) = 2
    /\ limiter.maxAttempts = 2
    /\ window[k].granted = 2
    /\ window[k].calls > 2

CleanupStep == call.fn = "none" /\ call'.fn = "cleanup"

\* C23: cleanup() removes exactly the entries whose window started more
\* than 2 x windowMs ago and leaves every other entry as it is, also
\* between the isAllowed calls of requests in flight.
C23_CleanupExact ==
  [][CleanupStep =>
       \A k \in Devices :
         attempts'[k] =
           IF attempts[k].has /\ now - window[k].start > 2 * limiter.windowMs
           THEN NoEntry
           ELSE attempts[k]]_vars

\* with a request in flight, one key's old entry is gone and the other
\* key's live one is kept
C23_Witness ==
  /\ call.fn = "cleanup"
  /\ \E r \in 1..MaxInFlight : inflight[r].pc = "awaiting"
  /\ \E k \in Devices, y \in Devices :
       /\ window[k].open /\ ~attempts[k].has
       /\ attempts[y].has /\ call.at - attempts[y].firstTime <= 2 * limiter.windowMs
       /\ call.at - attempts[y].firstTime > limiter.windowMs

---------------------------------------------------------------------------
(* The token functions and the limiter *)

TokenFunctions == {"validateToken", "shouldRotateToken", "getTokenInfo"}

LimiterMutators == {"isAllowed", "reset", "cleanup"}

\* the result of the call just made, computed from its arguments and the
\* time of the call alone
ResultOfArguments ==
  /\ call'.fn = "validateToken" =>
       call'.out = ValidateToken(call'.token, call'.deviceId, call'.secret, call'.at)
  /\ call'.fn = "shouldRotateToken" =>
       call'.rotate = ShouldRotateToken(call'.info, call'.at)
  /\ call'.fn = "getTokenInfo" => call'.out = GetTokenInfo(call'.token)

FrameStep ==
  /\ (call.fn = "none" /\ call'.fn \in TokenFunctions) =>
       attempts' = attempts /\ call'.at = now /\ ResultOfArguments
  /\ attempts' # attempts => call'.fn \in LimiterMutators

\* C26: validateToken, shouldRotateToken and getTokenInfo return what their
\* arguments and the time of the call determine and leave the limiter's
\* attempts map as it was; the attempts map changes only in a call of
\* isAllowed, reset or cleanup
C26_TokenFunctionsFrame == [][FrameStep]_vars

\* validateToken has accepted a token of a device whose attempts are used up,
\* and the entry is still there
C26_Witness ==
  /\ call.fn = "validateToken"
  /\ call.out.ok
  /\ call.deviceId = Str("devA")
  /\ attempts["devA"] # NoEntry
  /\ attempts["devA"].count >= limiter.maxAttempts

---------------------------------------------------------------------------
(* Properties of the limiter's entries *)

Denied(recent) == {i \in 1..Len(recent) : ~recent[i].allowed}

\* C31: a refused isAllowed call leaves the attempts map as it was, and a
\* call made more than windowMs after the firstTime of the key's entry is
\* allowed and starts a window with count 1, whatever was refused before.
C31_DeniedCallsDoNotExtend ==
  [][\A k \in Devices :
       IsAllowedStep(k) =>
         /\ ~call'.allowed => attempts' = attempts
         /\ attempts[k].has /\ now - attempts[k].firstTime > limiter.windowMs =>
              /\ call'.allowed
              /\ attempts'[k] = Entry(1, now)]_vars

\* a key that used up its attempts is allowed again right after its window,
\* two refused calls less than a window length before
C31_Witness ==
  /\ call.fn = "isAllowed"
  /\ call.allowed
  /\ call.before.has
  /\ call.before.count >= limiter.maxAttempts
  /\ call.at - call.before.firstTime > limiter.windowMs
  /\ \E k \in Devices :
       /\ call.deviceId = Str(k)
       /\ Cardinality(Denied(window[k].recent)) >= 2

\* C32: every entry of a limiter with maxAttempts >= 1 has
\* 1 <= count <= maxAttempts and firstTime <= now, and its count is the
\* number of calls allowed in the window that began at firstTime: the
\* refused calls of the window are not counted.
C32_CounterInvariant ==
  \A k \in Devices :
    attempts[k].has =>
      /\ 1 <= attempts[k].count
      /\ attempts[k].count <= limiter.maxAttempts
      /\ attempts[k].firstTime <= now
      /\ window[k].open /\ window[k].start = attempts[k].firstTime
      /\ attempts[k].count = window[k].granted
      /\ attempts[k].count <= window[k].calls

\* a full entry after its window has passed, two calls of the window refused
C32_Witness ==
  \E k \in Devices :
    /\ limiter.maxAttempts >= 2
    /\ attempts[k].has
    /\ attempts[k].count = limiter.maxAttempts
    /\ window[k].calls = limiter.maxAttempts + 2
    /\ now - attempts[k].firstTime > limiter.windowMs

---------------------------------------------------------------------------
(* Properties of the dates shouldRotateToken and validateToken compute *)

\* C34: shouldRotateToken returns true for a tokenInfo whose expires_at is
\* missing or is no parseable timestamp.
C34_RotateWhenUndetermined ==
  (/\ call.fn = "shouldRotateToken"
   /\ call.info.ok
   /\ NewDate(call.info.expires_at).nan) => call.rotate

\* C35: a successful validateToken returns age_seconds = now - issued_at in
\* whole seconds, a number that is not negative.
C35_AgeSeconds ==
  (call.fn = "validateToken" /\ call.out.ok) =>
    /\ call.out.age_seconds =
         MathRoundDiv(DateMinus(Ms(call.at), NewDate(call.out.issued_at)), MsPerSecond)
    /\ ~call.out.age_seconds.nan
    /\ call.out.age_seconds.ms >= 0

---------------------------------------------------------------------------
(* The sweep and the answers of the limiter *)

\* C33: with cleanup() calls put anywhere between them, the isAllowed and
\* getRemainingAttempts calls return what the same calls at the same times
\* return on a limiter that is never swept (unswept is its attempts map).
C33_SweepInvisible ==
  [][\A k \in Devices :
       /\ IsAllowedStep(k) =>
            call'.allowed = IsAllowed(unswept, k, now, limiter.maxAttempts,
                                      limiter.windowMs).allowed
       /\ RemainingStep(k) =>
            call'.remaining = GetRemainingAttempts(unswept, k, now, limiter.maxAttempts,
                                                   limiter.windowMs)]_vars

\* a call answered after the sweep removed the entry the unswept limiter
\* still holds
C33_Witness ==
  /\ call.fn = "getRemainingAttempts"
  /\ \E k \in Devices :
       /\ call.deviceId = Str(k)
       /\ unswept[k].has
       /\ unswept[k].count = limiter.maxAttempts
       /\ ~attempts[k].has
       /\ call.remaining = limiter.maxAttempts

---------------------------------------------------------------------------
(* Properties of the browser *)

\* C36: an initializeBrowser call that finds a browser returns that browser,
\* and puppeteer.launch is invoked at most once between closes, also when
\* calls start while no browser exists yet.
C36_BrowserSingleton ==
  /\ launches <= 1
  /\ \A p \in InitCallers :
       initCalls[p].pc = "returned" /\ initCalls[p].seen # 0 =>
         initCalls[p].got = initCalls[p].seen

---------------------------------------------------------------------------
(* Properties of the navigation of a capture *)

AllFailed(gotos) ==
  Len(gotos) = MaxNavigationAttempts /\ \A i \in 1..Len(gotos) : gotos[i] = "failed"

\* at most 3 attempts, none after one that succeeded, and the steps after
\* the navigation only after one that succeeded
RetryLoop ==
  /\ Len(page.gotos) <= MaxNavigationAttempts
  /\ \A i \in 1..(Len(page.gotos) - 1) : page.gotos[i] = "failed"
  /\ page.pc \in {"waitForSelector", "waitForTimeout", "screenshot"} \/ page.shot =>
       Len(page.gotos) > 0 /\ page.gotos[Len(page.gotos)] = "ok"

---------------------------------------------------------------------------
(* Properties of the screenshot file *)

\* C38: getScreenshot returns null or the complete bytes one saveScreenshot
\* call wrote, never a partial or mixed file, also with saveScreenshot
\* calls for the device running at once.
C38_AtomicScreenshot ==
  \A r \in Readers :
    reads[r].pc = "done" /\ reads[r].found => \E w \in Savers : reads[r].data = Image(w)

---------------------------------------------------------------------------
(* Properties of the reconnection *)

\* C39: attemptReconnect sets no timer once reconnectAttempts is
\* MAX_RECONNECT_ATTEMPTS, so at most MAX_RECONNECT_ATTEMPTS reconnections
\* are tried without an open between them; the "open" of a socket sets
\* reconnectAttempts to 0.
C39_BoundedReconnection ==
  [][/\ reconnectAttempts >= MAX_RECONNECT_ATTEMPTS /\ ~timer => ~timer'
     /\ socket' = "open" /\ socket # "open" => reconnectAttempts' = 0
     /\ reconnectAttempts' <= MAX_RECONNECT_ATTEMPTS
     /\ sinceOpen' <= MAX_RECONNECT_ATTEMPTS]_vars

\* a connection was lost, ten reconnections failed and none is scheduled
C39_Witness ==
  /\ opens >= 1
  /\ reconnectAttempts = MAX_RECONNECT_ATTEMPTS
  /\ sinceOpen = MAX_RECONNECT_ATTEMPTS
  /\ socket = "none"
  /\ ~timer

===========================================================================
